---- MODULE Spec2Model ----
\* Call signaling and session state of the negotiation dashboard
\* (src/frontend/src/app/page.tsx, component Home and DashboardContent),
\* two browser clients and the signaling backend between them.
EXTENDS Integers, Sequences, FiniteSets, TLC

\* ------------------------------------------------------------------ bounds
MaxOps == 2            \* operations of the user and of the other participants in one run
NumMeetingIds == 2     \* distinct values Math.random() is let to produce for the meeting id
MaxPairOps == 2        \* operations of the two users in one run of SpecPair
MaxInbox == 1          \* data packets in flight towards one client
MaxSpeechOps == 2      \* utterances delivered in one run of SpecTranscript
MaxUtterances == 52    \* distinct utterances delivered in one run of SpecBuffer
MaxCaptions == 1       \* captions delivered in one run of SpecResolver
MaxContractOps == 3    \* contract packets delivered in one run of SpecContract
MaxShareOps == 3       \* packets delivered in one run of SpecShare
MaxBiddingOps == 3     \* packets delivered in one run of SpecBidding
MaxResyncOps == 2      \* packets delivered in one run of the resync model
MaxPayloadOps == 3     \* payloads delivered in one run of the malformed-input model
MaxRound == 9          \* the largest round a timeline event names
MaxTurn == 2           \* the largest turn a timeline event names

\* --------------------------------------------------------- program constants
AcceptSettleMs == 500        \* acceptCall: setTimeout(..., 500)
AcceptedSettleMs == 1000     \* CALL_ACCEPTED: setTimeout(..., 1000)
StatusClearMs == 3000        \* setTimeout(() => setCallStatus(""), 3000)
DedupWindowMs == 5000        \* setTimeout(() => lastTranscriptHashes.current.delete(...), 5000)
MaxThoughts == 10            \* next.slice(0, 10)
MaxTranscripts == 50         \* next.slice(-50)
SyncDebounceMs == 1500       \* sendSyncRequest: setTimeout(..., 1500)

\* The granularity of the clock: the shortest delay, which divides the others.
TickMs == AcceptSettleMs

Personas == {"Halima", "Alex"}
Null == "null"
PresenceRoom == "presence"

VARIABLES
    persona,            \* Home: persona
    inRoom,             \* Home: inRoom
    lkToken,            \* Home: lkToken, named by the room the token grants
    callState,          \* Home: callState
    incomingCallFrom,   \* Home: incomingCallFrom
    outgoingCallTo,     \* Home: outgoingCallTo
    callStatus,         \* Home: callStatus
    thoughts,           \* Home: thoughts
    transcripts,        \* Home: transcripts
    contractStatus,     \* Home: contractStatus
    pendingContract,    \* Home: pendingContract
    sharedFiles,        \* Home: sharedFiles
    roomState,          \* useRoomContext(): the room's connection state and name
    http,               \* fetch() calls in flight: requests and responses
    inbox,              \* data packets published to a client, not yet received
    timers,             \* setTimeout() callbacks not yet run: status clear and rejoin
    hashTimers,         \* setTimeout() callbacks not yet run: dedup key expiry
    published,          \* data packets each client published with publishData
    minted,             \* meeting ids each client generated
    lastTranscriptHashes,   \* DashboardContent: lastTranscriptHashes.current
    tokenAsked,         \* call-room token requests of each client: the callback
                        \* that made the request (via) and the room it asked for
    tracks,             \* DashboardContent: useTracks(), the subscribed microphone
                        \* tracks' participants, in the order of the hook
    participantToAgent, \* DashboardContent: participantToAgent, the memoized map
    timeline,           \* Home (bidding dashboard): timeline
    negotiationProgress,    \* Home (bidding dashboard): negotiationProgress
    halimaOffer,        \* Home (bidding dashboard): halimaOffer
    alexOffer,          \* Home (bidding dashboard): alexOffer
    dealFinalized,      \* Home (bidding dashboard): dealFinalized
    lastRoomName,       \* DashboardContent: lastRoomName
    syncTimeout,        \* DashboardContent: syncTimeout of the mounted effect, the
                        \* time left of the setTimeout() not yet run or cleared
    dataErrors,         \* onDataReceived: the exceptions its catch has logged
    ops                 \* operations of the user and of the other participants so far

homeVars == <<persona, inRoom, lkToken, callState, incomingCallFrom, outgoingCallTo,
              callStatus, thoughts, transcripts, contractStatus, pendingContract,
              sharedFiles>>
trackVars == <<tracks, participantToAgent>>
trackerVars == <<timeline, negotiationProgress, halimaOffer, alexOffer, dealFinalized>>
syncVars == <<lastRoomName, syncTimeout>>
logVars == <<dataErrors>>
vars == <<persona, inRoom, lkToken, callState, incomingCallFrom, outgoingCallTo,
          callStatus, thoughts, transcripts, contractStatus, pendingContract,
          sharedFiles, roomState, http, inbox, timers, hashTimers, published,
          minted, lastTranscriptHashes, tokenAsked, tracks, participantToAgent,
          timeline, negotiationProgress, halimaOffer, alexOffer, dealFinalized,
          lastRoomName, syncTimeout, dataErrors, ops>>

\* const toPersona = persona === "Halima" ? "Alex" : "Halima"
toPersona(p) == IF persona[p] = "Halima" THEN "Alex" ELSE "Halima"

\* `harvest_deal_${Math.floor(Math.random() * 10000)}`
MeetingId(n) == "harvest_deal_" \o ToString(n)
MeetingIds == {MeetingId(n) : n \in 1..NumMeetingIds}

\* pendingContract === null
NoContract ==
    [id |-> Null, title |-> <<>>, agent |-> Null, status |-> Null, contract_data |-> Null]

\* A number of JavaScript that is a quotient of two integers, in lowest terms:
\* num / den with den > 0, and with den = 0 Infinity (num = 1), -Infinity
\* (num = -1) and NaN (num = 0).
RECURSIVE GCD(_, _)
GCD(a, b) == IF b = 0 THEN a ELSE GCD(b, a % b)

Abs(n) == IF n < 0 THEN 0 - n ELSE n

Quotient(num, den) ==
    IF den = 0
    THEN [num |-> IF num > 0 THEN 1 ELSE IF num < 0 THEN 0 - 1 ELSE 0, den |-> 0]
    ELSE LET g == GCD(Abs(num), Abs(den))
             sign == IF den < 0 THEN 0 - 1 ELSE 1
         IN  [num |-> sign * (num \div g), den |-> sign * (den \div g)]

Number(n) == Quotient(n, 1)

\* a <= b, false when either is NaN
LessEq(a, b) ==
    IF (a.den = 0 /\ a.num = 0) \/ (b.den = 0 /\ b.num = 0) THEN FALSE
    ELSE IF a.den = 0 THEN a.num < 0 \/ (b.den = 0 /\ b.num > 0)
    ELSE IF b.den = 0 THEN b.num > 0
    ELSE a.num * b.den <= b.num * a.den

\* useState<any>(null) of an offer
NoOffer == [price |-> Null]

\* useState<Timeline>({ turn: 0, round: 0, maxRounds: 8 }), useState(0),
\* useState<any>(null) twice, useState(false)
InitBidding ==
    /\ timeline = [p \in Personas |-> [turn |-> 0, round |-> 0, maxRounds |-> 8]]
    /\ negotiationProgress = [p \in Personas |-> Number(0)]
    /\ halimaOffer = [p \in Personas |-> NoOffer]
    /\ alexOffer = [p \in Personas |-> NoOffer]
    /\ dealFinalized = [p \in Personas |-> FALSE]

\* new Map<string, string>()
NoMapping == [id \in {} |-> Null]

Disconnected == [state |-> "disconnected", name |-> Null]

Init ==
    /\ persona = [p \in Personas |-> Null]
    /\ inRoom = [p \in Personas |-> FALSE]
    /\ lkToken = [p \in Personas |-> Null]
    /\ callState = [p \in Personas |-> "idle"]
    /\ incomingCallFrom = [p \in Personas |-> Null]
    /\ outgoingCallTo = [p \in Personas |-> Null]
    /\ callStatus = [p \in Personas |-> ""]
    /\ thoughts = [p \in Personas |-> <<>>]
    /\ transcripts = [p \in Personas |-> <<>>]
    /\ contractStatus = [p \in Personas |-> "none"]
    /\ pendingContract = [p \in Personas |-> NoContract]
    /\ sharedFiles = [p \in Personas |-> <<>>]
    /\ roomState = [p \in Personas |-> Disconnected]
    /\ http = {}
    /\ inbox = [p \in Personas |-> <<>>]
    /\ timers = {}
    /\ hashTimers = {}
    /\ published = [p \in Personas |-> <<>>]
    /\ minted = [p \in Personas |-> {}]
    /\ lastTranscriptHashes = [p \in Personas |-> {}]
    /\ tokenAsked = [p \in Personas |-> {}]
    /\ tracks = <<>>
    /\ participantToAgent = NoMapping
    /\ InitBidding
    /\ lastRoomName = [p \in Personas |-> ""]
    /\ syncTimeout = [p \in Personas |-> {}]
    /\ dataErrors = [p \in Personas |-> 0]
    /\ ops = 0

\* ------------------------------------------------------------ helpers
SetAt(f, p, v) == [f EXCEPT ![p] = v]

\* A fetch() in flight, with the outcome it will have: result is what the backend
\* answers ("lost" when the fetch rejects) and reply the room or token of the
\* answer. Identical calls in flight are told apart by n.
Slot(kind, who, peer, room) ==
    LET used == {r.n : r \in {q \in http : /\ q.kind = kind /\ q.who = who
                                           /\ q.peer = peer /\ q.room = room}}
    IN  CHOOSE n \in 1..(Cardinality(used) + 1) :
            /\ n \notin used
            /\ \A m \in 1..(n - 1) : m \in used

Request(kind, who, peer, room, result, reply) ==
    [kind |-> kind, who |-> who, peer |-> peer, room |-> room,
     n |-> Slot(kind, who, peer, room), result |-> result, reply |-> reply]

Timer(who, kind, ms, arg) == [who |-> who, kind |-> kind, left |-> ms, arg |-> arg]

\* A data packet: the JSON fields the handlers read. who is data.from, data.by,
\* data.agent or data.speaker; id is data.contract_id; text is data.text,
\* data.title or data.filename; sender is the agent name the handler derives
\* for the publishing participant; contract_data is absent but in a preview.
Packet(type, who, room, id, text, final, sender) ==
    [type |-> type, who |-> who, room |-> room, id |-> id, text |-> text,
     final |-> final, sender |-> sender, contract_data |-> Null]

\* { type: "CONTRACT_PREVIEW", contract_id, title, agent, contract_data }
PreviewPacket(id, title, agent, contract_data) ==
    [Packet("CONTRACT_PREVIEW", agent, Null, id, title, "absent", agent)
        EXCEPT !.contract_data = contract_data]

\* setThoughts([]); setTranscripts([])
resetNegotiationState(p) ==
    /\ thoughts' = SetAt(thoughts, p, <<>>)
    /\ transcripts' = SetAt(transcripts, p, <<>>)

\* setLkToken(token): <LiveKitRoom key={lkToken} token={lkToken || ""} connect={true}>
\* is remounted with the new key; the previous room object is disconnected and the
\* packets still in flight towards it are lost. An empty token connects nowhere.
\* DashboardContent is remounted with it and starts with a new, empty
\* lastTranscriptHashes; the expiry callbacks armed before delete from the set of
\* the unmounted instance and change nothing any more. The cleanup of the
\* unmounted effect runs clearTimeout(syncTimeout), and the new instance starts
\* with lastRoomName "" and, in a room object of its own, without tracks.
setLkToken(p, token) ==
    /\ lkToken' = SetAt(lkToken, p, token)
    /\ roomState' = SetAt(roomState, p,
            IF token = Null THEN Disconnected
            ELSE [state |-> "connecting", name |-> token])
    /\ inbox' = SetAt(inbox, p, <<>>)
    /\ lastTranscriptHashes' = SetAt(lastTranscriptHashes, p, {})
    /\ hashTimers' = {t \in hashTimers : t.who # p}
    /\ lastRoomName' = SetAt(lastRoomName, p, "")
    /\ syncTimeout' = SetAt(syncTimeout, p, {})
    /\ tracks' = <<>>
    /\ participantToAgent' = NoMapping

\* ------------------------------------------------------------------ backend
\* The backend publishes a packet into the room of its addressee; it arrives when
\* the addressee is connected and the channel has room, and is lost otherwise.
Relay(to, data) ==
    IF roomState[to].state = "connected" /\ Len(inbox[to]) < MaxInbox
    THEN SetAt(inbox, to, Append(inbox[to], data))
    ELSE inbox

\* The room of the call-accept reply and of the CALL_ACCEPTED packet: the
\* identifier the accepting party minted.
acceptedRoom(meeting_id) == meeting_id

\* POST /call/offer {from_persona, to_persona}
backendOffer(from, to, result) ==
    inbox' = IF result = "sent"
             THEN Relay(to, Packet("CALL_OFFER", from, Null, Null, <<>>, "absent", "Agent"))
             ELSE inbox

\* POST /call/accept {from_persona, to_persona, meeting_id}: an error reply has
\* a JSON body without a room
backendAcceptReply(meeting_id, result) ==
    IF result = "ok" THEN acceptedRoom(meeting_id) ELSE "undefined"

backendAccept(caller, by, meeting_id, result) ==
    inbox' = IF result = "ok"
             THEN Relay(caller, Packet("CALL_ACCEPTED", by, acceptedRoom(meeting_id), Null,
                                       <<>>, "absent", "Agent"))
             ELSE inbox

\* POST /call/decline {from_persona, to_persona}
backendDecline(caller, by, result) ==
    inbox' = IF result = "ok"
             THEN Relay(caller, Packet("CALL_DECLINED", by, Null, Null, <<>>, "absent",
                                       "Agent"))
             ELSE inbox

\* GET /livekit/token?participant_name=...&persona=...[&room_name=...]: the token
\* is named by the room it grants
backendToken(room) == room

\* ------------------------------------------------------- Home: presence
\* enterPresenceRoom, up to the await of the token fetch
enterPresenceRoom(p, result) ==
    /\ ~inRoom[p]
    /\ \A r \in http : ~(r.kind = "presenceToken" /\ r.who = p)
    /\ persona' = SetAt(persona, p, p)
    /\ http' = http \cup {Request("presenceToken", p, Null, PresenceRoom, result,
                                  backendToken(PresenceRoom))}
    /\ UNCHANGED <<trackVars, trackerVars, logVars, syncVars, inRoom, lkToken, callState, incomingCallFrom, outgoingCallTo,
                   callStatus, thoughts, transcripts, contractStatus, pendingContract,
                   sharedFiles, roomState, inbox, timers, published, minted,
                   tokenAsked, lastTranscriptHashes, hashTimers, ops>>

\* enterPresenceRoom, after the await: setLkToken(data.token); setInRoom(true)
enterPresenceRoomJoined(r) ==
    /\ r.kind = "presenceToken" /\ r.result = "ok"
    /\ setLkToken(r.who, r.reply)
    /\ inRoom' = SetAt(inRoom, r.who, TRUE)
    /\ http' = http \ {r}
    /\ UNCHANGED <<trackerVars, logVars, persona, callState, incomingCallFrom, outgoingCallTo, callStatus,
                   thoughts, transcripts, contractStatus, pendingContract, sharedFiles,
                   timers, published, minted, tokenAsked, ops>>

\* const sendSyncRequest = () => { clearTimeout(syncTimeout);
\*                                 syncTimeout = setTimeout(..., 1500) }
sendSyncRequest(p) == syncTimeout' = SetAt(syncTimeout, p, {SyncDebounceMs})

\* The transport finishes connecting the mounted LiveKitRoom and the room emits
\* RoomEvent.Connected: room.on(RoomEvent.Connected, sendSyncRequest)
Connected(p) ==
    /\ roomState[p].state = "connecting"
    /\ roomState' = SetAt(roomState, p, [state |-> "connected", name |-> roomState[p].name])
    /\ sendSyncRequest(p)
    /\ UNCHANGED <<trackVars, trackerVars, logVars, lastRoomName, homeVars, http, inbox, timers, published, minted, tokenAsked,
                   lastTranscriptHashes, hashTimers, ops>>

\* room.state === "connected" && lastRoomName !== room.name
newRoom(p) == roomState[p].state = "connected" /\ lastRoomName[p] # roomState[p].name

\* The effect of DashboardContent runs again because a dependency changed: the
\* cleanup of the previous run, clearTimeout(syncTimeout), then the body. On a
\* room not seen before the body clears the transcripts, records the name and
\* calls sendSyncRequest; setLastRoomName changes the dependency lastRoomName,
\* so the effect runs once more in the render that follows, where the cleanup
\* clears the timeout just armed and the body finds the name recorded.
roomEffect(p) ==
    /\ transcripts' = IF newRoom(p) THEN SetAt(transcripts, p, <<>>) ELSE transcripts
    /\ lastRoomName' = IF newRoom(p) THEN SetAt(lastRoomName, p, roomState[p].name)
                       ELSE lastRoomName
    /\ syncTimeout' = SetAt(syncTimeout, p, {})

\* lp.publishData(JSON.stringify({ type: "SYNC_REQUEST" })), into the room of
\* the local participant
SyncRequest(room) == [type |-> "SYNC_REQUEST", id |-> Null, reason |-> Null, room |-> room]

\* The callback of sendSyncRequest: if (room.state !== "connected") return;
\* lp.publishData(...)
syncTimer(p) ==
    /\ 0 \in syncTimeout[p]
    /\ syncTimeout' = SetAt(syncTimeout, p, {})
    /\ published' = IF roomState[p].state = "connected"
                    THEN SetAt(published, p,
                               Append(published[p], SyncRequest(roomState[p].name)))
                    ELSE published
    /\ UNCHANGED <<trackVars, trackerVars, logVars, lastRoomName, homeVars, roomState, http, inbox,
                   timers, minted, tokenAsked, lastTranscriptHashes, hashTimers, ops>>

\* ------------------------------------------------------ Home: call signaling
offlineStatus(to) == to \o " is offline"
declinedStatus(by) == by \o " declined the call"

\* initiateCall up to the await of fetch(/call/offer). The button is disabled
\* unless callState is idle.
initiateCall(p, result) ==
    /\ inRoom[p]
    /\ callState[p] = "idle"
    /\ ops < MaxOps
    /\ callState' = SetAt(callState, p, "calling")
    /\ outgoingCallTo' = SetAt(outgoingCallTo, p, toPersona(p))
    /\ http' = http \cup {Request("offer", p, toPersona(p), Null, result, Null)}
    /\ backendOffer(p, toPersona(p), result)
    /\ ops' = ops + 1
    /\ UNCHANGED <<trackVars, trackerVars, logVars, syncVars, persona, inRoom, lkToken, incomingCallFrom, callStatus, thoughts,
                   transcripts, contractStatus, pendingContract, sharedFiles, roomState,
                   timers, published, minted, tokenAsked, lastTranscriptHashes,
                   hashTimers>>

\* initiateCall after the await, data.status other than "offline": a log line only
initiateCallSent(r) ==
    /\ r.kind = "offer" /\ r.result = "sent"
    /\ http' = http \ {r}
    /\ UNCHANGED <<trackVars, trackerVars, logVars, syncVars, homeVars, roomState, inbox, timers, published, minted, tokenAsked,
                   lastTranscriptHashes, hashTimers, ops>>

\* A variant of the offline branch that shows the message and stays in calling.
initiateCallOffline_NoRevert(r) ==
    /\ r.kind = "offer" /\ r.result = "offline"
    /\ callStatus' = SetAt(callStatus, r.who, offlineStatus(r.peer))
    /\ timers' = timers \cup {Timer(r.who, "clearStatus", StatusClearMs, Null)}
    /\ http' = http \ {r}
    /\ UNCHANGED <<trackVars, trackerVars, logVars, syncVars, persona, inRoom, lkToken, callState, incomingCallFrom, outgoingCallTo,
                   thoughts, transcripts, contractStatus, pendingContract, sharedFiles,
                   roomState, inbox, published, minted, tokenAsked,
                   lastTranscriptHashes, hashTimers, ops>>

\* initiateCall after the await, data.status === "offline"
initiateCallOffline(r) ==
    /\ r.kind = "offer" /\ r.result = "offline"
    /\ callStatus' = SetAt(callStatus, r.who, offlineStatus(r.peer))
    /\ callState' = SetAt(callState, r.who, "idle")
    /\ outgoingCallTo' = SetAt(outgoingCallTo, r.who, Null)
    /\ timers' = timers \cup {Timer(r.who, "clearStatus", StatusClearMs, Null)}
    /\ http' = http \ {r}
    /\ UNCHANGED <<trackVars, trackerVars, logVars, syncVars, persona, inRoom, lkToken, incomingCallFrom, thoughts, transcripts,
                   contractStatus, pendingContract, sharedFiles, roomState, inbox,
                   published, minted, tokenAsked, lastTranscriptHashes, hashTimers,
                   ops>>

\* A variant of the catch branch that sends the offer again instead of giving up.
initiateCallFailed_Retry(r) ==
    /\ r.kind = "offer" /\ r.result \in {"lost", "error"}
    /\ http' = (http \ {r}) \cup {[r EXCEPT !.result = "sent"]}
    /\ UNCHANGED <<trackVars, trackerVars, logVars, syncVars, homeVars, roomState, inbox, timers, published, minted, tokenAsked,
                   lastTranscriptHashes, hashTimers, ops>>

\* initiateCall, catch: the fetch rejected ("lost") or !resp.ok ("error")
initiateCallFailed(r) ==
    /\ r.kind = "offer" /\ r.result \in {"lost", "error"}
    /\ callState' = SetAt(callState, r.who, "idle")
    /\ outgoingCallTo' = SetAt(outgoingCallTo, r.who, Null)
    /\ http' = http \ {r}
    /\ UNCHANGED <<trackVars, trackerVars, logVars, syncVars, persona, inRoom, lkToken, incomingCallFrom, callStatus, thoughts,
                   transcripts, contractStatus, pendingContract, sharedFiles, roomState,
                   inbox, timers, published, minted, tokenAsked, lastTranscriptHashes,
                   hashTimers, ops>>

\* The Accept and Decline buttons are rendered while callState is ringing and
\* incomingCallFrom is set; the functions themselves return at once when
\* incomingCallFrom is not set, which is the other case invoked here.
RingingShown(p) == callState[p] = "ringing" /\ incomingCallFrom[p] # Null

\* acceptCall up to the await of fetch(/call/accept)
acceptCall(p, n, result) ==
    /\ inRoom[p]
    /\ RingingShown(p) \/ incomingCallFrom[p] = Null
    /\ IF incomingCallFrom[p] = Null
       THEN UNCHANGED <<http, minted, inbox, ops>>
       ELSE /\ ops < MaxOps
            /\ ops' = ops + 1
            /\ minted' = SetAt(minted, p, minted[p] \cup {MeetingId(n)})
            /\ http' = http \cup {Request("accept", p, incomingCallFrom[p], MeetingId(n),
                                          result, backendAcceptReply(MeetingId(n), result))}
            /\ backendAccept(incomingCallFrom[p], p, MeetingId(n), result)
    /\ UNCHANGED <<trackVars, trackerVars, logVars, syncVars, homeVars, roomState, timers, published, tokenAsked,
                   lastTranscriptHashes, hashTimers>>

\* A variant of acceptCall after the await that rejoins without a settle delay.
acceptCallDone_NoSettle(r) ==
    /\ r.kind = "accept" /\ r.result \in {"ok", "error"}
    /\ callState' = SetAt(callState, r.who, "connected")
    /\ resetNegotiationState(r.who)
    /\ setLkToken(r.who, Null)
    /\ timers' = timers \cup {Timer(r.who, "joinAccept", 0, r.reply)}
    /\ http' = http \ {r}
    /\ UNCHANGED <<trackerVars, logVars, persona, inRoom, incomingCallFrom, outgoingCallTo, callStatus,
                   contractStatus, pendingContract, sharedFiles, published, minted,
                   tokenAsked, ops>>

\* acceptCall after the await: resp.json() is read whatever resp.ok says, so an
\* error reply with a JSON body carries no room and data.room is undefined.
acceptCallDone(r) ==
    /\ r.kind = "accept" /\ r.result \in {"ok", "error"}
    /\ callState' = SetAt(callState, r.who, "connected")
    /\ resetNegotiationState(r.who)
    /\ setLkToken(r.who, Null)
    /\ timers' = timers \cup {Timer(r.who, "joinAccept", AcceptSettleMs, r.reply)}
    /\ http' = http \ {r}
    /\ UNCHANGED <<trackerVars, logVars, persona, inRoom, incomingCallFrom, outgoingCallTo, callStatus,
                   contractStatus, pendingContract, sharedFiles, published, minted,
                   tokenAsked, ops>>

\* acceptCall, catch: the fetch rejected; a log line only
acceptCallFailed(r) ==
    /\ r.kind = "accept" /\ r.result = "lost"
    /\ http' = http \ {r}
    /\ UNCHANGED <<trackVars, trackerVars, logVars, syncVars, homeVars, roomState, inbox, timers, published, minted, tokenAsked,
                   lastTranscriptHashes, hashTimers, ops>>

\* declineCall up to the await of fetch(/call/decline)
declineCall(p, result) ==
    /\ inRoom[p]
    /\ RingingShown(p) \/ incomingCallFrom[p] = Null
    /\ IF incomingCallFrom[p] = Null
       THEN UNCHANGED <<http, inbox, ops>>
       ELSE /\ ops < MaxOps
            /\ ops' = ops + 1
            /\ http' = http \cup {Request("decline", p, incomingCallFrom[p], Null,
                                          result, Null)}
            /\ backendDecline(incomingCallFrom[p], p, result)
    /\ UNCHANGED <<trackVars, trackerVars, logVars, syncVars, homeVars, roomState, timers, published, minted, tokenAsked,
                   lastTranscriptHashes, hashTimers>>

\* A variant of declineCall after the try/catch that keeps the offering role.
declineCallDone_KeepsCaller(r) ==
    /\ r.kind = "decline"
    /\ callState' = SetAt(callState, r.who, "idle")
    /\ http' = http \ {r}
    /\ UNCHANGED <<trackVars, trackerVars, logVars, syncVars, persona, inRoom, lkToken, incomingCallFrom, outgoingCallTo, callStatus,
                   thoughts, transcripts, contractStatus, pendingContract, sharedFiles,
                   roomState, inbox, timers, published, minted, tokenAsked,
                   lastTranscriptHashes, hashTimers, ops>>

\* declineCall after the try/catch, reached when the fetch resolved and when it
\* rejected ("lost"): setCallState("idle"); setIncomingCallFrom(null)
declineCallDone(r) ==
    /\ r.kind = "decline"
    /\ callState' = SetAt(callState, r.who, "idle")
    /\ incomingCallFrom' = SetAt(incomingCallFrom, r.who, Null)
    /\ http' = http \ {r}
    /\ UNCHANGED <<trackVars, trackerVars, logVars, syncVars, persona, inRoom, lkToken, outgoingCallTo, callStatus, thoughts,
                   transcripts, contractStatus, pendingContract, sharedFiles, roomState,
                   inbox, timers, published, minted, tokenAsked, lastTranscriptHashes,
                   hashTimers, ops>>

\* A variant of Cancel Call that also tells the backend.
cancelCall_Notifies(p) ==
    /\ inRoom[p]
    /\ callState[p] = "calling" /\ outgoingCallTo[p] # Null
    /\ callState' = SetAt(callState, p, "idle")
    /\ outgoingCallTo' = SetAt(outgoingCallTo, p, Null)
    /\ http' = http \cup {Request("decline", p, outgoingCallTo[p], Null, "ok", Null)}
    /\ UNCHANGED <<trackVars, trackerVars, logVars, syncVars, persona, inRoom, lkToken, incomingCallFrom, callStatus, thoughts,
                   transcripts, contractStatus, pendingContract, sharedFiles, roomState,
                   inbox, timers, published, minted, tokenAsked,
                   lastTranscriptHashes, hashTimers, ops>>

\* Cancel Call onClick, rendered while callState is calling and outgoingCallTo is set
cancelCall(p) ==
    /\ inRoom[p]
    /\ callState[p] = "calling" /\ outgoingCallTo[p] # Null
    /\ callState' = SetAt(callState, p, "idle")
    /\ outgoingCallTo' = SetAt(outgoingCallTo, p, Null)
    /\ UNCHANGED <<trackVars, trackerVars, logVars, syncVars, persona, inRoom, lkToken, incomingCallFrom, callStatus, thoughts,
                   transcripts, contractStatus, pendingContract, sharedFiles, roomState,
                   http, inbox, timers, published, minted, tokenAsked,
                   lastTranscriptHashes, hashTimers, ops>>

\* --------------------------------------------------------- text of an utterance
\* A text is a sequence of characters. String.prototype.toLowerCase, trim and
\* replace(/[.!?]+$/, "") on the characters the model uses.
toLowerCaseChar(c) ==
    CASE c = "O" -> "o"
      [] c = "K" -> "k"
      [] c = "A" -> "a"
      [] c = "H" -> "h"
      [] c = "U" -> "u"
      [] OTHER -> c

toLowerCase(t) == [i \in 1..Len(t) |-> toLowerCaseChar(t[i])]

RECURSIVE trimStart(_)
trimStart(t) == IF t # <<>> /\ Head(t) = " " THEN trimStart(Tail(t)) ELSE t

RECURSIVE trimEnd(_)
trimEnd(t) ==
    IF t # <<>> /\ t[Len(t)] = " " THEN trimEnd(SubSeq(t, 1, Len(t) - 1)) ELSE t

trim(t) == trimEnd(trimStart(t))

RECURSIVE stripFinalPunctuation(_)
stripFinalPunctuation(t) ==
    IF t # <<>> /\ t[Len(t)] \in {".", "!", "?"}
    THEN stripFinalPunctuation(SubSeq(t, 1, Len(t) - 1))
    ELSE t

\* A variant of the normalization that keeps the letter case.
normalizedText_KeepsCase(t) == stripFinalPunctuation(trim(t))

\* data.text.trim().toLowerCase().replace(/[.!?]+$/, "")
normalizedText(t) == stripFinalPunctuation(toLowerCase(trim(t)))

\* `${speaker.toLowerCase()}:${normalizedText}`
lowerName(speaker) ==
    CASE speaker \in {"Halima", "HALIMA"} -> "halima"
      [] speaker \in {"Alex", "ALEX"} -> "alex"
      [] speaker \in {"Agent", "AGENT"} -> "agent"
      [] OTHER -> speaker

\* The key is one string: the lowercase name, a colon, the normalized text.
contentHash(speaker, t) == <<lowerName(speaker), ":">> \o normalizedText(t)

\* ------------------------------------------- DashboardContent: onDataReceived
\* The state a data handler may write. rest is what stays in flight towards p.
KeepInbox(p, rest) == inbox' = SetAt(inbox, p, rest)

\* A variant of the CALL_OFFER branch that also starts a new session.
onCallOffer_Reset(p, data, rest) ==
    /\ incomingCallFrom' = SetAt(incomingCallFrom, p, data.who)
    /\ callState' = SetAt(callState, p, "ringing")
    /\ resetNegotiationState(p)
    /\ KeepInbox(p, rest)
    /\ UNCHANGED <<outgoingCallTo, callStatus, contractStatus, pendingContract,
                   sharedFiles, roomState, timers, lastTranscriptHashes, hashTimers>>

\* data.type === "CALL_OFFER"
onCallOffer(p, data, rest) ==
    /\ incomingCallFrom' = SetAt(incomingCallFrom, p, data.who)
    /\ callState' = SetAt(callState, p, "ringing")
    /\ KeepInbox(p, rest)
    /\ UNCHANGED <<outgoingCallTo, callStatus, thoughts, transcripts, contractStatus,
                   pendingContract, sharedFiles, roomState, timers,
                   lastTranscriptHashes, hashTimers>>

\* A variant of the CALL_ACCEPTED branch that joins a room of its own choice
\* instead of data.room.
onCallAccepted_OwnRoom(p, data, rest) ==
    /\ callState' = SetAt(callState, p, "connected")
    /\ resetNegotiationState(p)
    /\ roomState' = SetAt(roomState, p, Disconnected)
    /\ inbox' = SetAt(inbox, p, <<>>)
    /\ timers' = timers \cup {Timer(p, "joinAccepted", AcceptedSettleMs, MeetingId(1))}
    /\ UNCHANGED <<incomingCallFrom, outgoingCallTo, callStatus, contractStatus,
                   pendingContract, sharedFiles, lastTranscriptHashes, hashTimers>>

\* A variant of the CALL_ACCEPTED branch without room.disconnect().
onCallAccepted_StaysConnected(p, data, rest) ==
    /\ callState' = SetAt(callState, p, "connected")
    /\ resetNegotiationState(p)
    /\ KeepInbox(p, rest)
    /\ timers' = timers \cup {Timer(p, "joinAccepted", AcceptedSettleMs, data.room)}
    /\ UNCHANGED <<incomingCallFrom, outgoingCallTo, callStatus, contractStatus,
                   pendingContract, sharedFiles, roomState, lastTranscriptHashes,
                   hashTimers>>

\* data.type === "CALL_ACCEPTED"; room.disconnect() ends the reception of packets
onCallAccepted(p, data, rest) ==
    /\ callState' = SetAt(callState, p, "connected")
    /\ resetNegotiationState(p)
    /\ roomState' = SetAt(roomState, p, Disconnected)
    /\ inbox' = SetAt(inbox, p, <<>>)
    /\ timers' = timers \cup {Timer(p, "joinAccepted", AcceptedSettleMs, data.room)}
    /\ UNCHANGED <<incomingCallFrom, outgoingCallTo, callStatus, contractStatus,
                   pendingContract, sharedFiles, lastTranscriptHashes, hashTimers>>

\* A variant of the CALL_DECLINED branch that never clears its message.
onCallDeclined_NoTimer(p, data, rest) ==
    /\ callStatus' = SetAt(callStatus, p, declinedStatus(data.who))
    /\ callState' = SetAt(callState, p, "idle")
    /\ outgoingCallTo' = SetAt(outgoingCallTo, p, Null)
    /\ KeepInbox(p, rest)
    /\ UNCHANGED <<incomingCallFrom, thoughts, transcripts, contractStatus,
                   pendingContract, sharedFiles, roomState, timers,
                   lastTranscriptHashes, hashTimers>>

\* data.type === "CALL_DECLINED"
onCallDeclined(p, data, rest) ==
    /\ callStatus' = SetAt(callStatus, p, declinedStatus(data.who))
    /\ callState' = SetAt(callState, p, "idle")
    /\ outgoingCallTo' = SetAt(outgoingCallTo, p, Null)
    /\ timers' = timers \cup {Timer(p, "clearStatus", StatusClearMs, Null)}
    /\ KeepInbox(p, rest)
    /\ UNCHANGED <<incomingCallFrom, thoughts, transcripts, contractStatus,
                   pendingContract, sharedFiles, roomState, lastTranscriptHashes,
                   hashTimers>>

\* data.type === "CONTRACT_INTENT"
onContractIntent(p, data, rest) ==
    /\ contractStatus' = IF data.who = "Halima" THEN SetAt(contractStatus, p, "drafting")
                         ELSE contractStatus
    /\ KeepInbox(p, rest)
    /\ UNCHANGED <<callState, incomingCallFrom, outgoingCallTo, callStatus, thoughts,
                   transcripts, pendingContract, sharedFiles, roomState, timers,
                   lastTranscriptHashes, hashTimers>>

\* data.type === "CONTRACT_PREVIEW"
onContractPreview(p, data, rest) ==
    /\ pendingContract' = SetAt(pendingContract, p,
            [id |-> data.id, title |-> data.text, agent |-> data.who,
             status |-> "pending_approval", contract_data |-> data.contract_data])
    /\ contractStatus' = SetAt(contractStatus, p, "pending_approval")
    /\ KeepInbox(p, rest)
    /\ UNCHANGED <<callState, incomingCallFrom, outgoingCallTo, callStatus, thoughts,
                   transcripts, sharedFiles, roomState, timers, lastTranscriptHashes,
                   hashTimers>>

\* data.type === "CONTRACT_APPROVED" (status "sent") and "CONTRACT_REJECTED" ("none")
onContractResolved(p, status, rest) ==
    /\ contractStatus' = SetAt(contractStatus, p, status)
    /\ pendingContract' = SetAt(pendingContract, p, NoContract)
    /\ KeepInbox(p, rest)
    /\ UNCHANGED <<callState, incomingCallFrom, outgoingCallTo, callStatus, thoughts,
                   transcripts, sharedFiles, roomState, timers, lastTranscriptHashes,
                   hashTimers>>

\* A variant of the FILE_SHARED branch with one status shared by all viewers.
onFileShared_SharedFlag(p, data, rest) ==
    /\ sharedFiles' = SetAt(sharedFiles, p,
            Append(sharedFiles[p], [name |-> data.text, from |-> data.who]))
    /\ contractStatus' = [q \in Personas |-> "received"]
    /\ KeepInbox(p, rest)
    /\ UNCHANGED <<callState, incomingCallFrom, outgoingCallTo, callStatus, thoughts,
                   transcripts, pendingContract, roomState, timers,
                   lastTranscriptHashes, hashTimers>>

\* data.type === "FILE_SHARED"
onFileShared(p, data, rest) ==
    /\ sharedFiles' = SetAt(sharedFiles, p,
            Append(sharedFiles[p], [name |-> data.text, from |-> data.who]))
    /\ contractStatus' = SetAt(contractStatus, p, "received")
    /\ KeepInbox(p, rest)
    /\ UNCHANGED <<callState, incomingCallFrom, outgoingCallTo, callStatus, thoughts,
                   transcripts, pendingContract, roomState, timers,
                   lastTranscriptHashes, hashTimers>>

\* data.type === "thought"
onThought(p, data, rest) ==
    /\ thoughts' = SetAt(thoughts, p,
            IF \E i \in 1..Len(thoughts[p]) : thoughts[p][i].text = data.text
            THEN thoughts[p]
            ELSE LET next == <<[agent |-> IF data.who = Null THEN "Agent" ELSE data.who,
                                text |-> data.text, type |-> "insight"]>> \o thoughts[p]
                 IN  SubSeq(next, 1, IF Len(next) < MaxThoughts THEN Len(next)
                                     ELSE MaxThoughts))
    /\ KeepInbox(p, rest)
    /\ UNCHANGED <<callState, incomingCallFrom, outgoingCallTo, callStatus, transcripts,
                   contractStatus, pendingContract, sharedFiles, roomState, timers,
                   lastTranscriptHashes, hashTimers>>

\* const speaker = data.speaker || agentName || "Agent"
speakerOf(data) == IF data.who # Null THEN data.who ELSE data.sender

\* A variant of the SPEECH branch that keeps the first MaxTranscripts entries.
onSpeech_KeepsOldest(p, data, rest) ==
    LET speaker == speakerOf(data)
        hash == contentHash(speaker, data.text)
        prev == transcripts[p]
        next == Append(prev, [agent |-> speaker, text |-> data.text])
    IN  /\ KeepInbox(p, rest)
        /\ IF data.text # <<>> /\ data.final # "false" /\ hash \notin lastTranscriptHashes[p]
           THEN /\ lastTranscriptHashes' =
                        SetAt(lastTranscriptHashes, p, lastTranscriptHashes[p] \cup {hash})
                /\ hashTimers' = hashTimers \cup
                        {[who |-> p, hash |-> hash, left |-> DedupWindowMs]}
                /\ transcripts' = SetAt(transcripts, p,
                        IF \E i \in 1..Len(prev) :
                                prev[i].text = data.text /\ prev[i].agent = speaker
                        THEN prev
                        ELSE IF Len(next) > MaxTranscripts
                             THEN SubSeq(next, 1, MaxTranscripts)
                             ELSE next)
           ELSE UNCHANGED <<lastTranscriptHashes, hashTimers, transcripts>>
        /\ UNCHANGED <<callState, incomingCallFrom, outgoingCallTo, callStatus, thoughts,
                       contractStatus, pendingContract, sharedFiles, roomState, timers>>

\* data.type === "SPEECH"
onSpeech(p, data, rest) ==
    LET speaker == speakerOf(data)
        hash == contentHash(speaker, data.text)
        prev == transcripts[p]
        next == Append(prev, [agent |-> speaker, text |-> data.text])
    IN  /\ KeepInbox(p, rest)
        /\ IF data.text # <<>> /\ data.final # "false" /\ hash \notin lastTranscriptHashes[p]
           THEN /\ lastTranscriptHashes' =
                        SetAt(lastTranscriptHashes, p, lastTranscriptHashes[p] \cup {hash})
                /\ hashTimers' = hashTimers \cup
                        {[who |-> p, hash |-> hash, left |-> DedupWindowMs]}
                /\ transcripts' = SetAt(transcripts, p,
                        IF \E i \in 1..Len(prev) :
                                prev[i].text = data.text /\ prev[i].agent = speaker
                        THEN prev
                        ELSE IF Len(next) > MaxTranscripts
                             THEN SubSeq(next, Len(next) - MaxTranscripts + 1, Len(next))
                             ELSE next)
           ELSE UNCHANGED <<lastTranscriptHashes, hashTimers, transcripts>>
        /\ UNCHANGED <<callState, incomingCallFrom, outgoingCallTo, callStatus, thoughts,
                       contractStatus, pendingContract, sharedFiles, roomState, timers>>

\* Any other data.type, and SPEECH_STATE, which writes the speaking flags only
onOther(p, data, rest) ==
    /\ KeepInbox(p, rest)
    /\ UNCHANGED <<callState, incomingCallFrom, outgoingCallTo, callStatus, thoughts,
                   transcripts, contractStatus, pendingContract, sharedFiles, roomState,
                   timers, lastTranscriptHashes, hashTimers>>

onDataReceived(p, data, rest) ==
    CASE data.type = "CALL_OFFER" -> onCallOffer(p, data, rest)
      [] data.type = "CALL_ACCEPTED" -> onCallAccepted(p, data, rest)
      [] data.type = "CALL_DECLINED" -> onCallDeclined(p, data, rest)
      [] data.type = "CONTRACT_INTENT" -> onContractIntent(p, data, rest)
      [] data.type = "CONTRACT_PREVIEW" -> onContractPreview(p, data, rest)
      [] data.type = "CONTRACT_APPROVED" -> onContractResolved(p, "sent", rest)
      [] data.type = "CONTRACT_REJECTED" -> onContractResolved(p, "none", rest)
      [] data.type = "FILE_SHARED" -> onFileShared(p, data, rest)
      [] data.type = "thought" -> onThought(p, data, rest)
      [] data.type = "SPEECH" -> onSpeech(p, data, rest)
      [] OTHER -> onOther(p, data, rest)

\* A packet published to the room p is connected to arrives at p's handler.
Receive(p) ==
    /\ roomState[p].state = "connected"
    /\ inbox[p] # <<>>
    /\ onDataReceived(p, Head(inbox[p]), Tail(inbox[p]))
    /\ UNCHANGED <<trackVars, trackerVars, logVars, syncVars, persona, inRoom, lkToken, http, published, minted, tokenAsked,
                   ops>>

\* The packets the negotiation agents publish in the model.
Ok == <<"O", "k", ".">>
AgentPackets ==
    { Packet("thought", "Halima", Null, Null, Ok, "absent", "Halima"),
      Packet("SPEECH", "Halima", Null, Null, Ok, "absent", "Halima"),
      Packet("CONTRACT_INTENT", "Halima", Null, Null, <<>>, "absent", "Halima"),
      PreviewPacket("c1", Ok, "Halima", "terms 1") }

\* The call packets another participant of p's room may publish.
PeerPackets(p) ==
    { Packet("CALL_OFFER", toPersona(p), Null, Null, <<>>, "absent", "Agent"),
      Packet("CALL_DECLINED", toPersona(p), Null, Null, <<>>, "absent", "Agent") }
    \cup { Packet("CALL_ACCEPTED", toPersona(p), room, Null, <<>>, "absent", "Agent") :
                room \in MeetingIds }

\* A participant of p's room publishes a packet; p's handler receives it.
Delivers(p, data) ==
    /\ roomState[p].state = "connected"
    /\ ops' = ops + 1
    /\ onDataReceived(p, data, inbox[p])
    /\ UNCHANGED <<trackVars, trackerVars, logVars, syncVars, persona, inRoom, lkToken, http, published, minted, tokenAsked>>

Publishes(p, data) == ops < MaxOps /\ Delivers(p, data)

\* The payloads of the model by what JSON.parse makes of them: the encoding
\* of a packet, bytes that are no JSON text (JSON.parse throws), and the JSON
\* text null (data.type throws).
NoData == Packet(Null, Null, Null, Null, <<>>, "absent", Null)
Encoded(data) == [json |-> "object", data |-> data]
NotJson == [json |-> "invalid", data |-> NoData]
JsonNull == [json |-> "null", data |-> NoData]

\* A variant of the catch that also starts the session anew.
onDataError_Resets(p, rest) ==
    /\ dataErrors' = SetAt(dataErrors, p, dataErrors[p] + 1)
    /\ resetNegotiationState(p)
    /\ KeepInbox(p, rest)
    /\ UNCHANGED <<callState, incomingCallFrom, outgoingCallTo, callStatus,
                   contractStatus, pendingContract, sharedFiles, roomState,
                   timers, lastTranscriptHashes, hashTimers>>

\* catch (e) { console.error("[SIGNAL] Data Error:", e) }
onDataError(p, rest) ==
    /\ dataErrors' = SetAt(dataErrors, p, dataErrors[p] + 1)
    /\ KeepInbox(p, rest)
    /\ UNCHANGED <<callState, incomingCallFrom, outgoingCallTo, callStatus, thoughts,
                   transcripts, contractStatus, pendingContract, sharedFiles, roomState,
                   timers, lastTranscriptHashes, hashTimers>>

\* onDataReceived from its first line: try { const data = JSON.parse(raw); the
\* branches on data.type } catch (e) { ... }
onPayload(p, payload, rest) ==
    IF payload.json = "object"
    THEN onDataReceived(p, payload.data, rest) /\ UNCHANGED dataErrors
    ELSE onDataError(p, rest)

\* A participant of p's room publishes a payload; p's handler receives it.
DeliversPayload(p, payload) ==
    /\ roomState[p].state = "connected"
    /\ ops' = ops + 1
    /\ onPayload(p, payload, inbox[p])
    /\ UNCHANGED <<trackVars, trackerVars, syncVars, persona, inRoom, lkToken, http,
                   published, minted, tokenAsked>>

\* ------------------------------------- DashboardContent: handleTranscription
\* A caption segment: the fields the handler reads.
Segment(text, final) == [text |-> text, final |-> final]

RECURSIVE newTranscripts(_, _, _)
\* finalSegments.map(...).filter(t => t !== null), with the keys recorded on the
\* way: a segment whose key is in seen yields nothing, another yields an entry
\* and records its key.
newTranscripts(agentName, segs, seen) ==
    IF segs = <<>> THEN [entries |-> <<>>, keys |-> {}]
    ELSE LET hash == contentHash(agentName, Head(segs).text)
         IN  IF hash \in seen
             THEN newTranscripts(agentName, Tail(segs), seen)
             ELSE LET more == newTranscripts(agentName, Tail(segs), seen \cup {hash})
                  IN  [entries |-> <<[agent |-> agentName, text |-> Head(segs).text]>>
                                       \o more.entries,
                       keys |-> {hash} \cup more.keys]

\* A variant of handleTranscription that appends every final segment without
\* looking its key up.
handleTranscription_NoDedup(p, agentName, segments) ==
    LET finalSegments == SelectSeq(segments, LAMBDA s : s.final /\ trim(s.text) # <<>>)
        next == transcripts[p] \o
                    [i \in 1..Len(finalSegments) |->
                        [agent |-> agentName, text |-> finalSegments[i].text]]
    IN  /\ roomState[p].state = "connected"
        /\ ops' = ops + 1
        /\ IF agentName \in {"Halima", "Alex"} \/ finalSegments = <<>>
           THEN UNCHANGED transcripts
           ELSE transcripts' = SetAt(transcripts, p,
                        IF Len(next) > MaxTranscripts
                        THEN SubSeq(next, Len(next) - MaxTranscripts + 1, Len(next))
                        ELSE next)
        /\ UNCHANGED <<trackVars, trackerVars, logVars, syncVars, persona, inRoom, lkToken, callState, incomingCallFrom,
                       outgoingCallTo, callStatus, thoughts, contractStatus,
                       pendingContract, sharedFiles, roomState, http, inbox, timers,
                       published, minted, tokenAsked, lastTranscriptHashes, hashTimers>>

\* A variant of handleTranscription that puts the new entries first, as the
\* thought stream does.
handleTranscription_Prepends(p, agentName, segments) ==
    LET finalSegments == SelectSeq(segments, LAMBDA s : s.final /\ trim(s.text) # <<>>)
        new == newTranscripts(agentName, finalSegments, lastTranscriptHashes[p])
        next == new.entries \o transcripts[p]
    IN  /\ roomState[p].state = "connected"
        /\ ops' = ops + 1
        /\ IF agentName \in {"Halima", "Alex"} \/ finalSegments = <<>>
           THEN UNCHANGED <<transcripts, lastTranscriptHashes, hashTimers>>
           ELSE /\ lastTranscriptHashes' =
                        SetAt(lastTranscriptHashes, p, lastTranscriptHashes[p] \cup new.keys)
                /\ hashTimers' = hashTimers \cup
                        {[who |-> p, hash |-> h, left |-> DedupWindowMs] : h \in new.keys}
                /\ transcripts' = SetAt(transcripts, p,
                        IF new.entries = <<>> THEN transcripts[p]
                        ELSE IF Len(next) > MaxTranscripts
                             THEN SubSeq(next, 1, MaxTranscripts)
                             ELSE next)
        /\ UNCHANGED <<trackVars, trackerVars, logVars, syncVars, persona, inRoom, lkToken, callState, incomingCallFrom,
                       outgoingCallTo, callStatus, thoughts, contractStatus,
                       pendingContract, sharedFiles, roomState, http, inbox, timers,
                       published, minted, tokenAsked>>

\* A variant of handleTranscription that takes the captions of every role.
handleTranscription_AnyRole(p, agentName, segments) ==
    LET finalSegments == SelectSeq(segments, LAMBDA s : s.final /\ trim(s.text) # <<>>)
        new == newTranscripts(agentName, finalSegments, lastTranscriptHashes[p])
        next == transcripts[p] \o new.entries
    IN  /\ roomState[p].state = "connected"
        /\ ops' = ops + 1
        /\ IF finalSegments = <<>>
           THEN UNCHANGED <<transcripts, lastTranscriptHashes, hashTimers>>
           ELSE /\ lastTranscriptHashes' =
                        SetAt(lastTranscriptHashes, p, lastTranscriptHashes[p] \cup new.keys)
                /\ hashTimers' = hashTimers \cup
                        {[who |-> p, hash |-> h, left |-> DedupWindowMs] : h \in new.keys}
                /\ transcripts' = SetAt(transcripts, p,
                        IF new.entries = <<>> THEN transcripts[p]
                        ELSE IF Len(next) > MaxTranscripts
                             THEN SubSeq(next, Len(next) - MaxTranscripts + 1, Len(next))
                             ELSE next)
        /\ UNCHANGED <<trackVars, trackerVars, logVars, syncVars, persona, inRoom, lkToken, callState, incomingCallFrom,
                       outgoingCallTo, callStatus, thoughts, contractStatus,
                       pendingContract, sharedFiles, roomState, http, inbox, timers,
                       published, minted, tokenAsked>>

\* handleTranscription(segments, participant), agentName being what
\* participantToAgent and getAgentFromIdentity give for the participant. The
\* updater of setTranscripts runs once.
handleTranscription(p, agentName, segments) ==
    LET finalSegments == SelectSeq(segments, LAMBDA s : s.final /\ trim(s.text) # <<>>)
        new == newTranscripts(agentName, finalSegments, lastTranscriptHashes[p])
        next == transcripts[p] \o new.entries
    IN  /\ roomState[p].state = "connected"
        /\ ops' = ops + 1
        /\ IF agentName \in {"Halima", "Alex"} \/ finalSegments = <<>>
           THEN UNCHANGED <<transcripts, lastTranscriptHashes, hashTimers>>
           ELSE /\ lastTranscriptHashes' =
                        SetAt(lastTranscriptHashes, p, lastTranscriptHashes[p] \cup new.keys)
                /\ hashTimers' = hashTimers \cup
                        {[who |-> p, hash |-> h, left |-> DedupWindowMs] : h \in new.keys}
                /\ transcripts' = SetAt(transcripts, p,
                        IF new.entries = <<>> THEN transcripts[p]
                        ELSE IF Len(next) > MaxTranscripts
                             THEN SubSeq(next, Len(next) - MaxTranscripts + 1, Len(next))
                             ELSE next)
        /\ UNCHANGED <<trackVars, trackerVars, logVars, syncVars, persona, inRoom, lkToken, callState, incomingCallFrom,
                       outgoingCallTo, callStatus, thoughts, contractStatus,
                       pendingContract, sharedFiles, roomState, http, inbox, timers,
                       published, minted, tokenAsked>>

\* -------------------------------------------- DashboardContent: contract buttons
\* The approval modal is rendered for Halima while a contract is pending; the
\* functions return at once without a pending contract, the other case invoked.
ApprovalShown(p) ==
    /\ contractStatus[p] = "pending_approval"
    /\ pendingContract[p] # NoContract
    /\ persona[p] = "Halima"

\* A variant of the two functions without the test of pendingContract: it
\* publishes and sets the status whether or not a contract is pending.
resolveContract_NoGuard(p, type, status, reason, delivered) ==
    /\ inRoom[p]
    /\ ApprovalShown(p) \/ pendingContract[p] = NoContract
    /\ published' = IF delivered
                    THEN SetAt(published, p, Append(published[p],
                            [type |-> type, id |-> pendingContract[p].id,
                             reason |-> reason]))
                    ELSE published
    /\ contractStatus' = SetAt(contractStatus, p, status)
    /\ pendingContract' = SetAt(pendingContract, p, NoContract)
    /\ UNCHANGED <<trackVars, trackerVars, logVars, syncVars, persona, inRoom, lkToken, callState, incomingCallFrom, outgoingCallTo,
                   callStatus, thoughts, transcripts, sharedFiles, roomState, http,
                   inbox, timers, minted, tokenAsked, lastTranscriptHashes, hashTimers,
                   ops>>

\* approveContract (type CONTRACT_APPROVED, status "sent") and rejectContract
\* (type CONTRACT_REJECTED, status "none"). publishData is asynchronous: whether
\* the packet goes out (delivered) or the promise rejects, the lines after it run.
resolveContract(p, type, status, reason, delivered) ==
    /\ inRoom[p]
    /\ ApprovalShown(p) \/ pendingContract[p] = NoContract
    /\ IF pendingContract[p] = NoContract
       THEN UNCHANGED <<published, contractStatus, pendingContract>>
       ELSE /\ published' = IF delivered
                            THEN SetAt(published, p, Append(published[p],
                                    [type |-> type, id |-> pendingContract[p].id,
                                     reason |-> reason]))
                            ELSE published
            /\ contractStatus' = SetAt(contractStatus, p, status)
            /\ pendingContract' = SetAt(pendingContract, p, NoContract)
    /\ UNCHANGED <<trackVars, trackerVars, logVars, syncVars, persona, inRoom, lkToken, callState, incomingCallFrom, outgoingCallTo,
                   callStatus, thoughts, transcripts, sharedFiles, roomState, http,
                   inbox, timers, minted, tokenAsked, lastTranscriptHashes, hashTimers,
                   ops>>

\* A variant of approveContract that keeps the contract pending.
approveContract_KeepsPending(p, delivered) ==
    /\ inRoom[p]
    /\ ApprovalShown(p) \/ pendingContract[p] = NoContract
    /\ IF pendingContract[p] = NoContract
       THEN UNCHANGED <<published, contractStatus>>
       ELSE /\ published' = IF delivered
                            THEN SetAt(published, p, Append(published[p],
                                    [type |-> "CONTRACT_APPROVED",
                                     id |-> pendingContract[p].id, reason |-> Null]))
                            ELSE published
            /\ contractStatus' = SetAt(contractStatus, p, "sent")
    /\ UNCHANGED <<trackVars, trackerVars, logVars, syncVars, persona, inRoom, lkToken, callState, incomingCallFrom,
                   outgoingCallTo, callStatus, thoughts, transcripts, pendingContract,
                   sharedFiles, roomState, http, inbox, timers, minted, tokenAsked,
                   lastTranscriptHashes, hashTimers, ops>>

approveContract(p, delivered) ==
    resolveContract(p, "CONTRACT_APPROVED", "sent", Null, delivered)

\* A variant of rejectContract that publishes no reason.
rejectContract_DropsReason(p, reason, delivered) ==
    resolveContract(p, "CONTRACT_REJECTED", "none", Null, delivered)

\* rejectContract(reason)
rejectContract(p, reason, delivered) ==
    resolveContract(p, "CONTRACT_REJECTED", "none", reason, delivered)

\* onClick={() => rejectContract("Terms need adjustment.")}
RejectReason == "Terms need adjustment."

\* ------------------------------------------------------------------- timers
\* setTimeout(() => setCallStatus(""), 3000)
clearStatusTimer(t) ==
    /\ t.kind = "clearStatus" /\ t.left = 0
    /\ callStatus' = SetAt(callStatus, t.who, "")
    /\ timers' = timers \ {t}
    /\ UNCHANGED <<trackVars, trackerVars, logVars, syncVars, persona, inRoom, lkToken, callState, incomingCallFrom, outgoingCallTo,
                   thoughts, transcripts, contractStatus, pendingContract, sharedFiles,
                   roomState, http, inbox, published, minted, tokenAsked,
                   lastTranscriptHashes, hashTimers, ops>>

\* The setTimeout callback of acceptCall (joinAccept) and of the CALL_ACCEPTED
\* handler (joinAccepted): fetch(/livekit/token?...&room_name=${data.room})
joinTimer(t, result) ==
    /\ t.kind \in {"joinAccept", "joinAccepted"} /\ t.left = 0
    /\ http' = http \cup {Request("callToken", t.who, Null, t.arg, result,
                                  backendToken(t.arg))}
    /\ tokenAsked' = SetAt(tokenAsked, t.who,
            tokenAsked[t.who] \cup {[via |-> t.kind, room |-> t.arg]})
    /\ timers' = timers \ {t}
    /\ UNCHANGED <<trackVars, trackerVars, logVars, syncVars, homeVars, roomState, inbox, published, minted, lastTranscriptHashes,
                   hashTimers, ops>>

\* .then(d => setLkToken(d.token))
callTokenDone(r) ==
    /\ r.kind = "callToken" /\ r.result = "ok"
    /\ setLkToken(r.who, r.reply)
    /\ http' = http \ {r}
    /\ UNCHANGED <<trackerVars, logVars, persona, inRoom, callState, incomingCallFrom, outgoingCallTo,
                   callStatus, thoughts, transcripts, contractStatus, pendingContract,
                   sharedFiles, timers, published, minted, tokenAsked, ops>>

\* A token fetch that rejects: enterPresenceRoom logs it, the rejoin has no catch
tokenFailed(r) ==
    /\ r.kind \in {"presenceToken", "callToken"} /\ r.result = "lost"
    /\ http' = http \ {r}
    /\ UNCHANGED <<trackVars, trackerVars, logVars, syncVars, homeVars, roomState, inbox, timers, published, minted, tokenAsked,
                   lastTranscriptHashes, hashTimers, ops>>

\* setTimeout(() => lastTranscriptHashes.current.delete(contentHash), 5000)
forgetHashTimer(t) ==
    /\ t \in hashTimers /\ t.left = 0
    /\ lastTranscriptHashes' =
            SetAt(lastTranscriptHashes, t.who, lastTranscriptHashes[t.who] \ {t.hash})
    /\ hashTimers' = hashTimers \ {t}
    /\ UNCHANGED <<trackVars, trackerVars, logVars, syncVars, homeVars, roomState, http, inbox, timers, published, minted,
                   tokenAsked, ops>>

\* TickMs pass. A callback that is due runs before more time passes.
Tick ==
    /\ timers # {} \/ hashTimers # {} \/ \E p \in Personas : syncTimeout[p] # {}
    /\ \A t \in timers : t.left > 0
    /\ \A t \in hashTimers : t.left > 0
    /\ \A p \in Personas : 0 \notin syncTimeout[p]
    /\ timers' = {[t EXCEPT !.left = @ - TickMs] : t \in timers}
    /\ hashTimers' = {[t EXCEPT !.left = @ - TickMs] : t \in hashTimers}
    /\ syncTimeout' = [p \in Personas |-> {left - TickMs : left \in syncTimeout[p]}]
    /\ UNCHANGED <<trackVars, trackerVars, logVars, lastRoomName, homeVars, roomState, http, inbox, published, minted, tokenAsked,
                   lastTranscriptHashes, ops>>

\* ------------------------------------------------------------ specification
\* One browser client, in the persona it chose, its backend, and the other
\* participants of its room, who publish the packets of PeerPackets and AgentPackets.
Solo(p) == \A q \in Personas \ {p} : persona[q] = Null

Next ==
    \/ \E p \in Personas, result \in {"ok", "lost"} : Solo(p) /\ enterPresenceRoom(p, result)
    \/ \E r \in http : enterPresenceRoomJoined(r)
    \/ \E p \in Personas : Connected(p)
    \/ \E p \in Personas, result \in {"sent", "offline", "error", "lost"} :
            initiateCall(p, result)
    \/ \E r \in http : initiateCallSent(r)
    \/ \E r \in http : initiateCallOffline(r)
    \/ \E r \in http : initiateCallFailed(r)
    \/ \E p \in Personas, n \in 1..NumMeetingIds, result \in {"ok", "error", "lost"} :
            acceptCall(p, n, result)
    \/ \E r \in http : acceptCallDone(r)
    \/ \E r \in http : acceptCallFailed(r)
    \/ \E p \in Personas, result \in {"ok", "lost"} : declineCall(p, result)
    \/ \E r \in http : declineCallDone(r)
    \/ \E p \in Personas : cancelCall(p)
    \/ \E p \in Personas, delivered \in BOOLEAN : approveContract(p, delivered)
    \/ \E p \in Personas, delivered \in BOOLEAN : rejectContract(p, RejectReason, delivered)
    \/ \E p \in Personas : \E data \in AgentPackets \cup PeerPackets(p) : Publishes(p, data)
    \/ \E t \in timers : clearStatusTimer(t)
    \/ \E t \in timers, result \in {"ok", "lost"} : joinTimer(t, result)
    \/ \E r \in http : callTokenDone(r)
    \/ \E r \in http : tokenFailed(r)
    \/ \E t \in hashTimers : forgetHashTimer(t)
    \/ \E p \in Personas : syncTimer(p)
    \/ Tick

Spec == Init /\ [][Next]_vars

\* Two browser clients, Halima and Alex, and the backend that relays their call
\* packets, for MaxPairOps operations of the two users.
NextPair ==
    \/ \E p \in Personas, result \in {"ok", "lost"} : enterPresenceRoom(p, result)
    \/ \E r \in http : enterPresenceRoomJoined(r)
    \/ \E p \in Personas : Connected(p)
    \/ \E p \in Personas, result \in {"sent", "offline", "error", "lost"} :
            initiateCall(p, result) /\ ops' <= MaxPairOps
    \/ \E r \in http : initiateCallSent(r)
    \/ \E r \in http : initiateCallOffline(r)
    \/ \E r \in http : initiateCallFailed(r)
    \/ \E p \in Personas, n \in 1..NumMeetingIds, result \in {"ok", "error", "lost"} :
            acceptCall(p, n, result) /\ ops' <= MaxPairOps
    \/ \E r \in http : acceptCallDone(r)
    \/ \E r \in http : acceptCallFailed(r)
    \/ \E p \in Personas, result \in {"ok", "lost"} :
            declineCall(p, result) /\ ops' <= MaxPairOps
    \/ \E r \in http : declineCallDone(r)
    \/ \E p \in Personas : cancelCall(p)
    \/ \E p \in Personas : Receive(p)
    \/ \E t \in timers : clearStatusTimer(t)
    \/ \E t \in timers, result \in {"ok", "lost"} : joinTimer(t, result)
    \/ \E r \in http : callTokenDone(r)
    \/ \E r \in http : tokenFailed(r)
    \/ \E p \in Personas : syncTimer(p)
    \/ Tick

SpecPair == Init /\ [][NextPair]_vars

\* The client Halima, connected to the presence room: the state after
\* enterPresenceRoom, its token and the transport's connect.
InitConnected ==
    /\ persona = [p \in Personas |-> IF p = "Halima" THEN p ELSE Null]
    /\ inRoom = [p \in Personas |-> p = "Halima"]
    /\ lkToken = [p \in Personas |-> IF p = "Halima" THEN PresenceRoom ELSE Null]
    /\ callState = [p \in Personas |-> "idle"]
    /\ incomingCallFrom = [p \in Personas |-> Null]
    /\ outgoingCallTo = [p \in Personas |-> Null]
    /\ callStatus = [p \in Personas |-> ""]
    /\ thoughts = [p \in Personas |-> <<>>]
    /\ transcripts = [p \in Personas |-> <<>>]
    /\ contractStatus = [p \in Personas |-> "none"]
    /\ pendingContract = [p \in Personas |-> NoContract]
    /\ sharedFiles = [p \in Personas |-> <<>>]
    /\ roomState = [p \in Personas |->
            IF p = "Halima" THEN [state |-> "connected", name |-> PresenceRoom]
            ELSE Disconnected]
    /\ http = {}
    /\ inbox = [p \in Personas |-> <<>>]
    /\ timers = {}
    /\ hashTimers = {}
    /\ published = [p \in Personas |-> <<>>]
    /\ minted = [p \in Personas |-> {}]
    /\ lastTranscriptHashes = [p \in Personas |-> {}]
    /\ tokenAsked = [p \in Personas |-> {}]
    /\ tracks = <<>>
    /\ participantToAgent = NoMapping
    /\ InitBidding
    /\ lastRoomName = [p \in Personas |-> IF p = "Halima" THEN PresenceRoom ELSE ""]
    /\ syncTimeout = [p \in Personas |-> {}]
    /\ dataErrors = [p \in Personas |-> 0]
    /\ ops = 0

\* The utterances of the transcript model: texts that differ in case, in
\* surrounding whitespace and in final punctuation, a blank one, another one.
OkSpaced == <<" ", "o", "k">>
Blank == <<" ">>
No == <<"n", "o">>
Texts == {Ok, OkSpaced, Blank, No}

\* SPEECH packets: data.speaker, data.text, data.is_final
SpeechPackets ==
    { Packet("SPEECH", speaker, Null, Null, text, final, "Agent") :
        speaker \in {"Agent", "AGENT", "Halima"}, text \in Texts,
        final \in {"absent", "false"} }

\* Caption deliveries: one segment, or the same utterance in two segments
CaptionSegments ==
    { <<Segment(text, final)>> : text \in Texts, final \in BOOLEAN }
    \cup { <<Segment(Ok, TRUE), Segment(OkSpaced, TRUE)>> }

\* The client Halima and the utterances that reach it on the two channels.
NextTranscript ==
    \/ \E data \in SpeechPackets : ops < MaxSpeechOps /\ Delivers("Halima", data)
    \/ \E agentName \in {"Agent", "Halima"}, segments \in CaptionSegments :
            ops < MaxSpeechOps /\ handleTranscription("Halima", agentName, segments)
    \/ \E t \in hashTimers : forgetHashTimer(t)
    \/ Tick

SpecTranscript == InitConnected /\ [][NextTranscript]_vars

\* --------------------------------------------------------------- properties
Other(p) == CHOOSE q \in Personas : q # p

\* The packet data arrives at p's handler, published by another participant of
\* the room or relayed by the backend.
Arrives(p, data) ==
    \/ Publishes(p, data)
    \/ inbox[p] # <<>> /\ Head(inbox[p]) = data /\ Receive(p)

CallPackets(p, type) == {data \in PeerPackets(p) : data.type = type}

Rooms == MeetingIds \cup {"undefined"}
OffersInFlight == {r \in http : r.kind = "offer"}
TokenRequests == {r \in http : r.kind = "callToken"}

\* p has armed the rejoin of kind `kind` for room X, or has made its token request.
JoinsVia(p, kind, X) ==
    \/ [via |-> kind, room |-> X] \in tokenAsked[p]
    \/ \E t \in timers : t.who = p /\ t.kind = kind /\ t.arg = X

\* The backend's successful answer to p's call-accept for room X is on its way.
AcceptAnswered(p, X) ==
    \E r \in http : r.kind = "accept" /\ r.who = p /\ r.result = "ok" /\ r.reply = X

\* A status message on display has a clear callback pending.
StatusHasTimer ==
    \A p \in Personas :
        callStatus[p] # "" => \E t \in timers : t.who = p /\ t.kind = "clearStatus"

\* C1 (signaling symmetry): a client that is told CALL_ACCEPTED{room=X} joins X
\* and nothing else on that account, X was minted by the other client, not by
\* the handler, and the other client, whose call-accept the backend answered,
\* joins X too; the step that receives CALL_ACCEPTED and the step that completes
\* the accept both leave their client in callState connected.
C1_SameRoom ==
    \A a \in Personas, X \in Rooms :
        (\/ JoinsVia(a, "joinAccepted", X)
         \/ \E i \in 1..Len(inbox[a]) :
                inbox[a][i].type = "CALL_ACCEPTED" /\ inbox[a][i].room = X)
        => /\ X \in minted[Other(a)]
           /\ AcceptAnswered(Other(a), X) \/ JoinsVia(Other(a), "joinAccept", X)

C1_Step ==
    /\ \A a \in Personas : \A data \in CallPackets(a, "CALL_ACCEPTED") :
            Arrives(a, data) =>
                /\ callState'[a] = "connected"
                /\ minted' = minted
                /\ \E t \in timers' : t.who = a /\ t.kind = "joinAccepted" /\ t.arg = data.room
    /\ \A r \in http :
            (r.result = "ok" /\ acceptCallDone(r)) =>
                /\ callState'[r.who] = "connected"
                /\ r.room \in minted[r.who]
                /\ \E t \in timers' : t.who = r.who /\ t.kind = "joinAccept" /\ t.arg = r.room

C1_SignalingSymmetry == []C1_SameRoom /\ [][C1_Step]_vars

\* Both clients are in the room the accepting one minted, the caller having
\* minted none.
C1_Witness ==
    \E a \in Personas, X \in MeetingIds :
        /\ callState[a] = "connected" /\ callState[Other(a)] = "connected"
        /\ [via |-> "joinAccepted", room |-> X] \in tokenAsked[a]
        /\ [via |-> "joinAccept", room |-> X] \in tokenAsked[Other(a)]
        /\ roomState[a] = [state |-> "connected", name |-> X]
        /\ roomState[Other(a)] = [state |-> "connected", name |-> X]
        /\ minted[a] = {} /\ X \in minted[Other(a)]

\* C2 (accept transition): acceptCall invoked while ringing mints an identifier
\* and sends exactly one call-accept carrying it; when the send succeeds the
\* client is connected, its thoughts and transcripts are empty, its connection is
\* dropped, and the rejoin under the minted room is armed for the settle delay;
\* a call-room token is requested only by a rejoin callback whose delay has run
\* out, for the room that callback was armed with.
C2_AcceptTransition ==
    [][ /\ \A p \in Personas, n \in 1..NumMeetingIds, result \in {"ok", "error", "lost"} :
                (RingingShown(p) /\ acceptCall(p, n, result)) =>
                    /\ minted'[p] = minted[p] \cup {MeetingId(n)}
                    /\ \E r \in http' \ http :
                            /\ http' = http \cup {r}
                            /\ r.kind = "accept" /\ r.who = p
                            /\ r.peer = incomingCallFrom[p] /\ r.room = MeetingId(n)
        /\ \A r \in http :
                (r.result = "ok" /\ acceptCallDone(r)) =>
                    /\ callState'[r.who] = "connected"
                    /\ thoughts'[r.who] = <<>> /\ transcripts'[r.who] = <<>>
                    /\ lkToken'[r.who] = Null /\ roomState'[r.who] = Disconnected
                    /\ r.room \in minted[r.who]
                    /\ timers' = timers \cup {Timer(r.who, "joinAccept", AcceptSettleMs, r.room)}
                    /\ TokenRequests' = TokenRequests /\ tokenAsked' = tokenAsked
        /\ \A q \in TokenRequests' \ TokenRequests :
                \E t \in timers \ timers' :
                    /\ t.left = 0 /\ t.who = q.who /\ t.arg = q.room
                    /\ t.kind \in {"joinAccept", "joinAccepted"}
      ]_vars

\* The client that accepted is in the room it minted, by its own rejoin.
C2_Witness ==
    \E p \in Personas, X \in MeetingIds :
        /\ X \in minted[p]
        /\ [via |-> "joinAccept", room |-> X] \in tokenAsked[p]
        /\ callState[p] = "connected"
        /\ roomState[p] = [state |-> "connected", name |-> X]
        /\ lkToken[p] = X
        /\ thoughts[p] = <<>> /\ transcripts[p] = <<>>

\* C3 (caller-side connect): CALL_ACCEPTED{room=X} received while calling makes the
\* client connected, disconnects its room at once, empties thoughts and
\* transcripts and arms the rejoin for X; no token is requested in that step; the
\* rejoin callback runs when its delay has run out, requests the token for
\* exactly the room it was armed with, and finds the presence connection gone.
C3_CallerConnect ==
    [][ /\ \A p \in Personas : \A data \in CallPackets(p, "CALL_ACCEPTED") :
                (callState[p] = "calling" /\ Arrives(p, data)) =>
                    /\ callState'[p] = "connected"
                    /\ roomState'[p] = Disconnected
                    /\ thoughts'[p] = <<>> /\ transcripts'[p] = <<>>
                    /\ timers' = timers \cup
                            {Timer(p, "joinAccepted", AcceptedSettleMs, data.room)}
                    /\ TokenRequests' = TokenRequests /\ tokenAsked' = tokenAsked
                    /\ lkToken' = lkToken
        /\ \A t \in timers, result \in {"ok", "lost"} :
                (t.kind = "joinAccepted" /\ joinTimer(t, result)) =>
                    /\ t.left = 0
                    /\ roomState[t.who].name # PresenceRoom
                    /\ \E q \in http' \ http :
                            /\ http' = http \cup {q}
                            /\ q.kind = "callToken" /\ q.who = t.who /\ q.room = t.arg
      ]_vars

\* After initiateCall and CALL_ACCEPTED{room=X} and nothing else, the caller has
\* just been told the room: connected, its room disconnected, the rejoin armed
\* with the whole delay ahead.
C3_Witness ==
    \E p \in Personas, X \in MeetingIds :
        /\ callState[p] = "connected"
        /\ outgoingCallTo[p] = toPersona(p)
        /\ roomState[p] = Disconnected
        /\ lkToken[p] = PresenceRoom
        /\ Timer(p, "joinAccepted", AcceptedSettleMs, X) \in timers
        /\ tokenAsked[p] = {}
        /\ ops = 2

\* C4 (offline rejection): initiateCall takes an idle client to calling; the
\* offline answer takes it to idle, clears outgoingCallTo, sets the one message
\* "<role> is offline" and arms one clear callback for the auto-clear interval;
\* the callback empties the message, and a message on display always has a
\* clear callback pending.
C4_Step ==
    /\ \A p \in Personas, result \in {"sent", "offline", "error", "lost"} :
            initiateCall(p, result) =>
                /\ callState[p] = "idle" /\ callState'[p] = "calling"
                /\ outgoingCallTo'[p] = toPersona(p)
    /\ \A r \in http :
            initiateCallOffline(r) =>
                /\ callState'[r.who] = "idle"
                /\ outgoingCallTo'[r.who] = Null
                /\ callStatus'[r.who] = offlineStatus(r.peer)
                /\ timers' = timers \cup {Timer(r.who, "clearStatus", StatusClearMs, Null)}
    /\ \A t \in timers :
            clearStatusTimer(t) => t.left = 0 /\ callStatus'[t.who] = ""

C4_OfflineRejection == []StatusHasTimer /\ [][C4_Step]_vars

\* The offline message is on display, its clear callback armed with the whole
\* interval ahead, the client idle again.
C4_Witness ==
    \E p \in Personas :
        /\ callStatus[p] = offlineStatus(toPersona(p))
        /\ callState[p] = "idle" /\ outgoingCallTo[p] = Null
        /\ Timer(p, "clearStatus", StatusClearMs, Null) \in timers
        /\ OffersInFlight = {}

\* C5 (no optimistic transition on send failure), as the specification states it:
\* when the send of an offer, accept or decline fails (the fetch rejects or the
\* answer is not OK), or the publication of a contract approval or rejection
\* fails, the call state and the contract state after the operation are those
\* from before it: idle for an offer, unchanged by the completion otherwise.
C5_NoOptimisticTransition ==
    [][ /\ \A r \in http :
                (/\ r.result \in {"lost", "error"}
                 /\ \/ initiateCallFailed(r)
                    \/ acceptCallFailed(r) \/ acceptCallDone(r)
                    \/ declineCallDone(r)) =>
                    /\ callState'[r.who] =
                            (IF r.kind = "offer" THEN "idle" ELSE callState[r.who])
                    /\ contractStatus' = contractStatus
                    /\ pendingContract' = pendingContract
        /\ \A p \in Personas :
                (approveContract(p, FALSE) \/ rejectContract(p, RejectReason, FALSE)) =>
                    /\ callState' = callState
                    /\ contractStatus' = contractStatus
                    /\ pendingContract' = pendingContract
      ]_vars

\* C6 (offer send failure): when the offer's fetch rejects or its answer is not
\* OK the client is idle with outgoingCallTo cleared, and the failed offer is
\* not sent again: a call-offer goes out only in a step of initiateCall, which
\* the user invokes from idle.
C6_OfferSendFailure ==
    [][ /\ \A r \in http :
                initiateCallFailed(r) =>
                    /\ callState'[r.who] = "idle"
                    /\ outgoingCallTo'[r.who] = Null
                    /\ OffersInFlight' = OffersInFlight \ {r}
        /\ \A q \in OffersInFlight' \ OffersInFlight :
                /\ callState[q.who] = "idle"
                /\ \E result \in {"sent", "offline", "error", "lost"} :
                        initiateCall(q.who, result)
      ]_vars

\* The client is calling and its offer has failed: the catch branch is next.
C6_Witness ==
    \E r \in http :
        /\ r.kind = "offer" /\ r.result \in {"lost", "error"}
        /\ callState[r.who] = "calling" /\ outgoingCallTo[r.who] = r.peer

\* C7 (incoming offer): CALL_OFFER{from=R} received while idle makes the client
\* ringing with incomingCallFrom = R and changes nothing else of the session.
C7_IncomingOffer ==
    [][ \A p \in Personas : \A data \in CallPackets(p, "CALL_OFFER") :
            (callState[p] = "idle" /\ Arrives(p, data)) =>
                /\ callState'[p] = "ringing"
                /\ incomingCallFrom'[p] = data.who
                /\ UNCHANGED <<thoughts, transcripts, contractStatus, pendingContract,
                               sharedFiles, outgoingCallTo, callStatus, lkToken,
                               roomState, http, timers, hashTimers,
                               lastTranscriptHashes, published, minted, tokenAsked>>
      ]_vars

\* After a thought and a CALL_OFFER and nothing else, the client rings for the
\* other role with the thought it had before.
C7_Witness ==
    \E p \in Personas :
        /\ callState[p] = "ringing"
        /\ incomingCallFrom[p] = toPersona(p)
        /\ thoughts[p] # <<>>
        /\ outgoingCallTo[p] = Null /\ http = {}
        /\ ops = 2

\* C8 (decline): declineCall invoked while ringing sends exactly one call-decline
\* naming the offering role, and its completion leaves the client idle with
\* incomingCallFrom cleared; invoked with no offering role recorded it sends
\* nothing and changes nothing.
C8_Decline ==
    [][ /\ \A p \in Personas, result \in {"ok", "lost"} :
                (RingingShown(p) /\ declineCall(p, result)) =>
                    \E r \in http' \ http :
                        /\ http' = http \cup {r}
                        /\ r.kind = "decline" /\ r.who = p
                        /\ r.peer = incomingCallFrom[p]
        /\ \A r \in http :
                declineCallDone(r) =>
                    /\ callState'[r.who] = "idle"
                    /\ incomingCallFrom'[r.who] = Null
                    /\ http' = http \ {r}
        /\ \A p \in Personas, result \in {"ok", "lost"} :
                (incomingCallFrom[p] = Null /\ declineCall(p, result)) => UNCHANGED vars
      ]_vars

\* The ringing client's call-decline, naming the role that offered, is under way.
C8_Witness ==
    \E r \in http :
        /\ r.kind = "decline" /\ r.peer = toPersona(r.who)
        /\ callState[r.who] = "ringing" /\ incomingCallFrom[r.who] = r.peer
        /\ \A q \in http : q.kind = "decline" => q = r

\* C9 (peer declined): CALL_DECLINED{by=R} received while calling makes the
\* client idle, clears outgoingCallTo, sets the message "R declined the call"
\* and arms its clear callback for the auto-clear interval; the callback empties
\* the message, and a message on display always has a clear callback pending.
C9_Step ==
    /\ \A p \in Personas : \A data \in CallPackets(p, "CALL_DECLINED") :
            (callState[p] = "calling" /\ Arrives(p, data)) =>
                /\ callState'[p] = "idle"
                /\ outgoingCallTo'[p] = Null
                /\ callStatus'[p] = declinedStatus(data.who)
                /\ Timer(p, "clearStatus", StatusClearMs, Null) \in timers'
    /\ \A t \in timers :
            (t.kind = "clearStatus" /\ t \notin timers') =>
                \/ t.left = 0 /\ callStatus'[t.who] = ""
                \/ t.left > 0 /\ [t EXCEPT !.left = @ - TickMs] \in timers'

C9_PeerDeclined == [][C9_Step]_vars /\ []StatusHasTimer

\* After initiateCall and CALL_DECLINED and nothing else, the declined message is
\* on display, its clear callback armed with the whole interval ahead, the
\* client idle again.
C9_Witness ==
    \E p \in Personas :
        /\ callStatus[p] = declinedStatus(toPersona(p))
        /\ callState[p] = "idle" /\ outgoingCallTo[p] = Null
        /\ Timer(p, "clearStatus", StatusClearMs, Null) \in timers
        /\ \E r \in http : r.kind = "offer" /\ r.who = p
        /\ ops = 2

\* C10 (local cancel): Cancel Call while calling makes the client idle and clears
\* outgoingCallTo; it sends and publishes nothing, and status message,
\* transcripts, thoughts, contract state, connection and callbacks stay as they were.
C10_LocalCancel ==
    [][ \A p \in Personas :
            cancelCall(p) =>
                /\ callState[p] = "calling" /\ callState'[p] = "idle"
                /\ outgoingCallTo'[p] = Null
                /\ UNCHANGED <<http, inbox, published, callStatus, thoughts, transcripts,
                               contractStatus, pendingContract, sharedFiles, lkToken,
                               roomState, timers, tokenAsked, incomingCallFrom>>
      ]_vars

\* The only operation so far was initiateCall, its offer is still under way, and
\* the client is idle again: it cancelled.
C10_Witness ==
    \E p \in Personas :
        /\ ops = 1
        /\ callState[p] = "idle" /\ outgoingCallTo[p] = Null
        /\ \E r \in http : r.kind = "offer" /\ r.who = p
        /\ callStatus[p] = "" /\ timers = {}

\* The CALL_ACCEPTED packets the peer of Halima may publish.
CallPacketsAccepted ==
    { Packet("CALL_ACCEPTED", "Alex", room, Null, <<>>, "absent", "Agent") :
        room \in MeetingIds }

\* The client Halima and a run of distinct utterances of one agent, the k-th
\* of them arriving as the k-th operation on one of the two channels, until a
\* CALL_ACCEPTED packet resets the session and ends the reception.
RECURSIVE Digits(_)
Digits(n) == IF n < 10 THEN <<ToString(n)>> ELSE Digits(n \div 10) \o <<ToString(n % 10)>>

Utterance(k) == <<"n", "o", " ">> \o Digits(k)

NextBuffer ==
    \/ /\ ops < MaxUtterances
       /\ Delivers("Halima", Packet("SPEECH", "Agent", Null, Null, Utterance(ops + 1),
                                    "absent", "Agent"))
    \/ /\ ops < MaxUtterances
       /\ handleTranscription("Halima", "Agent", <<Segment(Utterance(ops + 1), TRUE)>>)
    \/ \E data \in CallPacketsAccepted :
            ops < MaxUtterances /\ Delivers("Halima", data)

SpecBuffer == InitConnected /\ [][NextBuffer]_vars

\* ------------------------------------- DashboardContent: participantToAgent
\* Identities and names are sequences of characters, as the texts are.
startsWith(s, prefix) ==
    Len(s) >= Len(prefix) /\ SubSeq(s, 1, Len(prefix)) = prefix

includes(s, sub) ==
    \E i \in 1..(Len(s) - Len(sub) + 1) : SubSeq(s, i, i + Len(sub) - 1) = sub

\* A remote participant: identity, name and the persona of its metadata
\* (JSON.parse(p.metadata).persona), Null when the metadata declare none.
Participant(identity, name, metadata) ==
    [identity |-> identity, name |-> name, metadata |-> metadata]

\* tracks.filter(t => { const id = t.participant.identity.toLowerCase(); ... })
isAgentTrack(t) ==
    LET id == toLowerCase(t.identity)
    IN  \/ startsWith(id, <<"a", "g", "e", "n", "t", "-">>)
        \/ includes(id, <<"-", "w", "o", "r", "k", "e", "r">>)
        \/ startsWith(id, <<"a", "j", "_">>)

agentTracks(ts) == SelectSeq(ts, isAgentTrack)

\* The name the memo finds for a participant: 1. metadata, 2. identity string
\* search; Null for the empty name.
mappedName(p) ==
    LET id == toLowerCase(p.identity)
    IN  IF p.metadata # Null THEN p.metadata
        ELSE IF includes(id, <<"h", "a", "l", "i", "m", "a">>)
                \/ includes(id, <<"j", "u", "m", "a">>) THEN "Halima"
        ELSE IF includes(id, <<"a", "l", "e", "x">>) THEN "Alex"
        ELSE Null

\* agentTracks.forEach(track => { ...; if (name) mapping.set(p.identity, name) })
RECURSIVE mapping(_)
mapping(ats) ==
    IF ats = <<>> THEN NoMapping
    ELSE LET before == mapping(SubSeq(ats, 1, Len(ats) - 1))
             p == ats[Len(ats)]
             name == mappedName(p)
         IN  IF name = Null THEN before
             ELSE [id \in DOMAIN before \cup {p.identity} |->
                        IF id = p.identity THEN name ELSE before[id]]

\* getAgentFromIdentity(id, name)
getAgentFromIdentity(id, name) ==
    LET lowerId == toLowerCase(id)
        lowerNm == toLowerCase(name)
    IN  IF \/ includes(lowerId, <<"h", "a", "l", "i", "m", "a">>)
           \/ includes(lowerId, <<"s", "e", "l", "l", "e", "r">>)
           \/ includes(lowerNm, <<"h", "a", "l", "i", "m", "a">>) THEN "Halima"
        ELSE IF \/ includes(lowerId, <<"a", "l", "e", "x">>)
                \/ includes(lowerId, <<"b", "u", "y", "e", "r">>)
                \/ includes(lowerNm, <<"a", "l", "e", "x">>) THEN "Alex"
        ELSE "Agent"

\* participantToAgent.get(participant.identity)
\*     || getAgentFromIdentity(participant.identity, participant.name)
agentNameOf(participant) ==
    IF participant.identity \in DOMAIN participantToAgent
    THEN participantToAgent[participant.identity]
    ELSE getAgentFromIdentity(participant.identity, participant.name)

\* The participants of the model: two agents with identities of the transport,
\* one of them with a display name, an agent with a name in its identity, and
\* the user of the other persona.
AgentX == <<"a", "g", "e", "n", "t", "-", "x">>
AjY == <<"A", "J", "_", "y">>
AgentAlex == <<"a", "g", "e", "n", "t", "-", "A", "l", "e", "x">>
UserAlex == <<"U", "s", "e", "r", "_", "A", "l", "e", "x">>
Identities == {AgentX, AjY, AgentAlex, UserAlex}

nameOf(identity) == IF identity = AjY THEN <<"H", "a", "l", "i", "m", "a">> ELSE <<>>

Metadata == {Null, "Halima", "Alex"}

Present(ts, identity) == \E i \in 1..Len(ts) : ts[i].identity = identity

\* useTracks() returns a new array with the microphone track of a participant
\* that was subscribed; the memo runs on the new array and returns a new map,
\* a dependency of the effect.
trackSubscribed(p, participant) ==
    /\ roomState[p].state = "connected"
    /\ ~Present(tracks, participant.identity)
    /\ tracks' = Append(tracks, participant)
    /\ participantToAgent' = mapping(agentTracks(tracks'))
    /\ roomEffect(p)
    /\ UNCHANGED <<persona, inRoom, lkToken, callState, incomingCallFrom, outgoingCallTo,
                   callStatus, thoughts, contractStatus, pendingContract, sharedFiles,
                   trackerVars, logVars, roomState, http, inbox, timers, hashTimers,
                   published, minted, lastTranscriptHashes, tokenAsked, ops>>

\* useTracks() returns a new array without the track of a participant that
\* left or stopped publishing; the memo runs on the new array.
trackUnsubscribed(p, i) ==
    /\ roomState[p].state = "connected"
    /\ i \in 1..Len(tracks)
    /\ tracks' = SubSeq(tracks, 1, i - 1) \o SubSeq(tracks, i + 1, Len(tracks))
    /\ participantToAgent' = mapping(agentTracks(tracks'))
    /\ roomEffect(p)
    /\ UNCHANGED <<persona, inRoom, lkToken, callState, incomingCallFrom, outgoingCallTo,
                   callStatus, thoughts, contractStatus, pendingContract, sharedFiles,
                   trackerVars, logVars, roomState, http, inbox, timers, hashTimers,
                   published, minted, lastTranscriptHashes, tokenAsked, ops>>

\* The metadata of a participant change. The participant object of the track
\* carries the new value; the memo, whose dependency is the array of tracks,
\* runs again when the hook returns a new array for the event (refresh) and
\* keeps its value otherwise.
metadataChanged(p, i, metadata, refresh) ==
    /\ roomState[p].state = "connected"
    /\ i \in 1..Len(tracks)
    /\ tracks[i].metadata # metadata
    /\ tracks' = [tracks EXCEPT ![i].metadata = metadata]
    /\ participantToAgent' = IF refresh THEN mapping(agentTracks(tracks'))
                             ELSE participantToAgent
    /\ IF refresh THEN roomEffect(p) ELSE UNCHANGED <<transcripts, syncVars>>
    /\ UNCHANGED <<persona, inRoom, lkToken, callState, incomingCallFrom, outgoingCallTo,
                   callStatus, thoughts, contractStatus, pendingContract, sharedFiles,
                   trackerVars, logVars, roomState, http, inbox, timers, hashTimers,
                   published, minted, lastTranscriptHashes, tokenAsked, ops>>

\* The client Halima, the participants of its room and their captions.
NextResolver ==
    \/ \E identity \in Identities, metadata \in Metadata :
            trackSubscribed("Halima", Participant(identity, nameOf(identity), metadata))
    \/ \E i \in 1..Len(tracks) : trackUnsubscribed("Halima", i)
    \/ \E i \in 1..Len(tracks), metadata \in Metadata, refresh \in BOOLEAN :
            metadataChanged("Halima", i, metadata, refresh)
    \/ \E i \in 1..Len(tracks) :
            /\ ops < MaxCaptions
            /\ handleTranscription("Halima", agentNameOf(tracks[i]),
                                   <<Segment(Ok, TRUE)>>)

SpecResolver == InitConnected /\ [][NextResolver]_vars

\* ------------------------------------------------------------ contract flow
\* The contract packets the agents and the other user publish.
ContractIds == {"c1", "c2"}
ContractTerms == {"terms 1", "terms 2"}
ContractPackets ==
    { Packet("CONTRACT_INTENT", agent, Null, Null, <<>>, "absent", agent) :
        agent \in Personas }
    \cup { PreviewPacket(id, Ok, "Halima", terms) :
            id \in ContractIds, terms \in ContractTerms }
    \cup { Packet(type, Null, Null, id, <<>>, "absent", "Alex") :
            type \in {"CONTRACT_APPROVED", "CONTRACT_REJECTED"}, id \in ContractIds }

\* The reasons rejectContract is called with: the one of the button and another.
Reasons == {RejectReason, "Price too low."}

\* The client Halima, the contract packets that reach it and its two buttons.
NextContract ==
    \/ \E data \in ContractPackets : ops < MaxContractOps /\ Delivers("Halima", data)
    \/ \E delivered \in BOOLEAN : approveContract("Halima", delivered)
    \/ \E reason \in Reasons, delivered \in BOOLEAN :
            rejectContract("Halima", reason, delivered)

SpecContract == InitConnected /\ [][NextContract]_vars

\* ------------------------------------------------- contract: the two viewers
\* Halima and Alex in the room of their call: the state after Halima called,
\* Alex accepted with the first meeting id and both joined its room.
InitInCall ==
    /\ persona = [p \in Personas |-> p]
    /\ inRoom = [p \in Personas |-> TRUE]
    /\ lkToken = [p \in Personas |-> MeetingId(1)]
    /\ callState = [p \in Personas |-> "connected"]
    /\ incomingCallFrom = [p \in Personas |-> IF p = "Alex" THEN "Halima" ELSE Null]
    /\ outgoingCallTo = [p \in Personas |-> IF p = "Halima" THEN "Alex" ELSE Null]
    /\ callStatus = [p \in Personas |-> ""]
    /\ thoughts = [p \in Personas |-> <<>>]
    /\ transcripts = [p \in Personas |-> <<>>]
    /\ contractStatus = [p \in Personas |-> "none"]
    /\ pendingContract = [p \in Personas |-> NoContract]
    /\ sharedFiles = [p \in Personas |-> <<>>]
    /\ roomState = [p \in Personas |-> [state |-> "connected", name |-> MeetingId(1)]]
    /\ http = {}
    /\ inbox = [p \in Personas |-> <<>>]
    /\ timers = {}
    /\ hashTimers = {}
    /\ published = [p \in Personas |-> <<>>]
    /\ minted = [p \in Personas |-> IF p = "Alex" THEN {MeetingId(1)} ELSE {}]
    /\ lastTranscriptHashes = [p \in Personas |-> {}]
    /\ tokenAsked = [p \in Personas |->
            {[via |-> IF p = "Alex" THEN "joinAccept" ELSE "joinAccepted",
              room |-> MeetingId(1)]}]
    /\ tracks = <<>>
    /\ participantToAgent = NoMapping
    /\ InitBidding
    /\ lastRoomName = [p \in Personas |-> MeetingId(1)]
    /\ syncTimeout = [p \in Personas |-> {}]
    /\ dataErrors = [p \in Personas |-> 0]
    /\ ops = 0

\* The finished document of an author is pushed to the counterparty.
fileRecipient(author) == IF author = "Halima" THEN "Alex" ELSE "Halima"

\* { type: "FILE_SHARED", filename, from }
FilePackets(author) ==
    { Packet("FILE_SHARED", author, Null, Null, Ok, "absent", author) }

\* The two viewers: the contract packets of the agents reach either of them,
\* Halima has her buttons, and a file reaches the counterparty of its author.
NextShare ==
    \/ \E p \in Personas, data \in ContractPackets :
            ops < MaxShareOps /\ Delivers(p, data)
    \/ \E p \in Personas, delivered \in BOOLEAN : approveContract(p, delivered)
    \/ \E p \in Personas, delivered \in BOOLEAN : rejectContract(p, RejectReason, delivered)
    \/ \E author \in Personas : \E data \in FilePackets(author) :
            ops < MaxShareOps /\ Delivers(fileRecipient(author), data)

SpecShare == InitInCall /\ [][NextShare]_vars

\* --------------------------------------- bidding dashboard: onDataReceived
\* The version of the dashboard that tracks the negotiation (timeline,
\* progress, offers, deal). Its packets:
\* { type: "negotiation_timeline", turn, round, max_rounds }
TimelinePacket(turn, round, max_rounds) ==
    [type |-> "negotiation_timeline", turn |-> turn, round |-> round,
     max_rounds |-> max_rounds]

\* { type: "offer_update", agent, offer }
OfferPacket(agent, offer) == [type |-> "offer_update", agent |-> agent, offer |-> offer]

\* { type: "DEAL_FINALIZED", agent }
DealPacket(agent) == [type |-> "DEAL_FINALIZED", agent |-> agent]

\* { type: "CALL_ACCEPTED", by, room }
AcceptedPacket(by, room) == [type |-> "CALL_ACCEPTED", by |-> by, room |-> room]

\* const progress = (data.round / data.max_rounds) * 100
progressOf(round, max_rounds) == Quotient(round * 100, max_rounds)

\* data.type === "negotiation_timeline"
onNegotiationTimeline(p, data) ==
    /\ timeline' = SetAt(timeline, p,
            [turn |-> data.turn, round |-> data.round, maxRounds |-> data.max_rounds])
    /\ negotiationProgress' =
            SetAt(negotiationProgress, p, progressOf(data.round, data.max_rounds))
    /\ UNCHANGED <<homeVars, halimaOffer, alexOffer, dealFinalized, roomState, inbox,
                   timers>>

offerStatus(agent) == "Offer updated by " \o agent

\* data.type === "offer_update"
onOfferUpdate(p, data) ==
    /\ halimaOffer' = IF data.agent = "Halima" THEN SetAt(halimaOffer, p, data.offer)
                      ELSE halimaOffer
    /\ alexOffer' = IF data.agent = "Alex" THEN SetAt(alexOffer, p, data.offer)
                    ELSE alexOffer
    /\ callStatus' = SetAt(callStatus, p, offerStatus(data.agent))
    /\ timers' = timers \cup {Timer(p, "clearStatus", StatusClearMs, Null)}
    /\ UNCHANGED <<persona, inRoom, lkToken, callState, incomingCallFrom, outgoingCallTo,
                   thoughts, transcripts, contractStatus, pendingContract, sharedFiles,
                   timeline, negotiationProgress, dealFinalized, roomState, inbox>>

\* `DEAL FINALIZED BY ${data.agent.toUpperCase()}!`
dealStatus(agent) ==
    "DEAL FINALIZED BY " \o (IF agent = "Halima" THEN "HALIMA" ELSE "ALEX") \o "!"

\* data.type === "DEAL_FINALIZED"
onDealFinalized(p, data) ==
    /\ dealFinalized' = SetAt(dealFinalized, p, TRUE)
    /\ callStatus' = SetAt(callStatus, p, dealStatus(data.agent))
    /\ UNCHANGED <<persona, inRoom, lkToken, callState, incomingCallFrom, outgoingCallTo,
                   thoughts, transcripts, contractStatus, pendingContract, sharedFiles,
                   timeline, negotiationProgress, halimaOffer, alexOffer, roomState,
                   inbox, timers>>

\* data.type === "CALL_ACCEPTED" in this version: setCallState("connected"),
\* setNegotiationProgress(10), room.disconnect() and the rejoin after 1000 ms
onCallAcceptedBidding(p, data) ==
    /\ callState' = SetAt(callState, p, "connected")
    /\ negotiationProgress' = SetAt(negotiationProgress, p, Number(10))
    /\ roomState' = SetAt(roomState, p, Disconnected)
    /\ inbox' = SetAt(inbox, p, <<>>)
    /\ timers' = timers \cup {Timer(p, "joinAccepted", AcceptedSettleMs, data.room)}
    /\ UNCHANGED <<persona, inRoom, lkToken, incomingCallFrom, outgoingCallTo, callStatus,
                   thoughts, transcripts, contractStatus, pendingContract, sharedFiles,
                   timeline, halimaOffer, alexOffer, dealFinalized>>

\* room.on(RoomEvent.DataReceived, onDataReceived): a packet published to the
\* room p is connected to arrives at the handler of this version.
\* room.on(RoomEvent.Connected, () => { console.warn(...) }): the transport
\* finishes connecting the room of the new token; the handler logs a line.
ConnectedBidding(p) ==
    /\ roomState[p].state = "connecting"
    /\ roomState' = SetAt(roomState, p, [state |-> "connected", name |-> roomState[p].name])
    /\ UNCHANGED <<trackVars, trackerVars, logVars, syncVars, homeVars, http, inbox, timers, published,
                   minted, tokenAsked, lastTranscriptHashes, hashTimers, ops>>

onDataReceivedBidding(p, data) ==
    /\ roomState[p].state = "connected"
    /\ ops' = ops + 1
    /\ CASE data.type = "negotiation_timeline" -> onNegotiationTimeline(p, data)
         [] data.type = "offer_update" -> onOfferUpdate(p, data)
         [] data.type = "DEAL_FINALIZED" -> onDealFinalized(p, data)
         [] data.type = "CALL_ACCEPTED" -> onCallAcceptedBidding(p, data)
    /\ UNCHANGED <<trackVars, syncVars, logVars, http, hashTimers, published, minted, lastTranscriptHashes,
                   tokenAsked>>

\* The packets of the negotiation: the rounds of the claim's examples, a round
\* beyond the last one, and events without rounds.
Rounds == {0, 4, 8, MaxRound}
MaxRoundsValues == {0, 8}
Turns == 1..MaxTurn
Offers == {[price |-> "90"], [price |-> "100"]}
TimelinePackets ==
    { TimelinePacket(turn, round, max_rounds) :
        turn \in Turns, round \in Rounds, max_rounds \in MaxRoundsValues }
OfferPackets == { OfferPacket(agent, offer) : agent \in Personas, offer \in Offers }
DealPackets == { DealPacket(agent) : agent \in Personas }
AcceptedPackets == { AcceptedPacket("Alex", room) : room \in MeetingIds }

\* The client Halima on the bidding dashboard, connected to a room: the events
\* of the negotiation arrive, the peer accepts a call and the client moves to
\* the room of the call.
NextBidding ==
    \/ \E data \in TimelinePackets :
            ops < MaxBiddingOps /\ onDataReceivedBidding("Halima", data)
    \/ \E data \in OfferPackets :
            ops < MaxBiddingOps /\ onDataReceivedBidding("Halima", data)
    \/ \E data \in DealPackets :
            ops < MaxBiddingOps /\ onDataReceivedBidding("Halima", data)
    \/ \E data \in AcceptedPackets :
            ops < MaxBiddingOps /\ onDataReceivedBidding("Halima", data)
    \/ \E t \in timers : clearStatusTimer(t)
    \/ \E t \in timers, result \in {"ok", "lost"} : joinTimer(t, result)
    \/ \E r \in http : callTokenDone(r)
    \/ \E r \in http : tokenFailed(r)
    \/ ConnectedBidding("Halima")
    \/ Tick

SpecBidding == InitConnected /\ [][NextBidding]_vars

\* ------------------------------------------------------------------ resync
\* The client Halima from the start: she enters the presence room, the agents'
\* tracks come and go, speech arrives, and a CALL_ACCEPTED moves her to the
\* meeting room.
ResyncPackets ==
    { Packet("SPEECH", "Halima", Null, Null, Ok, "absent", "Halima"),
      Packet("CALL_ACCEPTED", "Alex", MeetingId(1), Null, <<>>, "absent", "Agent") }

NextResync ==
    \/ \E result \in {"ok", "lost"} : enterPresenceRoom("Halima", result)
    \/ \E r \in http : enterPresenceRoomJoined(r)
    \/ Connected("Halima")
    \/ trackSubscribed("Halima", Participant(AgentX, nameOf(AgentX), "Halima"))
    \/ \E i \in 1..Len(tracks) : trackUnsubscribed("Halima", i)
    \/ \E data \in ResyncPackets : ops < MaxResyncOps /\ Delivers("Halima", data)
    \/ \E t \in timers, result \in {"ok", "lost"} : joinTimer(t, result)
    \/ \E r \in http : callTokenDone(r)
    \/ \E r \in http : tokenFailed(r)
    \/ \E t \in hashTimers : forgetHashTimer(t)
    \/ syncTimer("Halima")
    \/ Tick

SpecResync == Init /\ [][NextResync]_vars

\* ------------------------------------------------------- malformed input
\* The client Halima in the presence room and the payloads that reach it:
\* undecodable ones, packets of a type no branch knows, and packets of the
\* agents.
MalformedPayloads ==
    { NotJson, JsonNull, Encoded(Packet("PING", "Halima", Null, Null, Ok, "absent", "Halima")) }

WellFormedPayloads ==
    { Encoded(Packet(type, "Halima", Null, Null, text, "absent", "Halima")) :
        type \in {"SPEECH", "thought"}, text \in {Ok, No} }

NextMalformed ==
    \/ \E payload \in MalformedPayloads :
            ops < MaxPayloadOps /\ DeliversPayload("Halima", payload)
    \/ \E payload \in WellFormedPayloads :
            ops < MaxPayloadOps /\ DeliversPayload("Halima", payload)
    \/ \E t \in hashTimers : forgetHashTimer(t)
    \/ Tick

SpecMalformed == InitConnected /\ [][NextMalformed]_vars

\* --------------------------------------------------- answering an offer
\* Alex has called Halima: both are in the presence room, his /call/offer was
\* answered and its CALL_OFFER has reached her.
InitRinging ==
    /\ persona = [p \in Personas |-> p]
    /\ inRoom = [p \in Personas |-> TRUE]
    /\ lkToken = [p \in Personas |-> PresenceRoom]
    /\ callState = [p \in Personas |-> IF p = "Halima" THEN "ringing" ELSE "calling"]
    /\ incomingCallFrom = [p \in Personas |-> IF p = "Halima" THEN "Alex" ELSE Null]
    /\ outgoingCallTo = [p \in Personas |-> IF p = "Alex" THEN "Halima" ELSE Null]
    /\ callStatus = [p \in Personas |-> ""]
    /\ thoughts = [p \in Personas |-> <<>>]
    /\ transcripts = [p \in Personas |-> <<>>]
    /\ contractStatus = [p \in Personas |-> "none"]
    /\ pendingContract = [p \in Personas |-> NoContract]
    /\ sharedFiles = [p \in Personas |-> <<>>]
    /\ roomState = [p \in Personas |-> [state |-> "connected", name |-> PresenceRoom]]
    /\ http = {}
    /\ inbox = [p \in Personas |-> <<>>]
    /\ timers = {}
    /\ hashTimers = {}
    /\ published = [p \in Personas |-> <<>>]
    /\ minted = [p \in Personas |-> {}]
    /\ lastTranscriptHashes = [p \in Personas |-> {}]
    /\ tokenAsked = [p \in Personas |-> {}]
    /\ tracks = <<>>
    /\ participantToAgent = NoMapping
    /\ InitBidding
    /\ lastRoomName = [p \in Personas |-> PresenceRoom]
    /\ syncTimeout = [p \in Personas |-> {}]
    /\ dataErrors = [p \in Personas |-> 0]
    /\ ops = 0

\* Halima presses Accept and Decline; Alex receives what the backend relays.
NextAnswer ==
    \/ \E n \in 1..NumMeetingIds, result \in {"ok", "error", "lost"} :
            acceptCall("Halima", n, result)
    \/ \E r \in http : acceptCallDone(r)
    \/ \E r \in http : acceptCallFailed(r)
    \/ \E result \in {"ok", "lost"} : declineCall("Halima", result)
    \/ \E r \in http : declineCallDone(r)
    \/ \E p \in Personas : Receive(p)
    \/ \E t \in timers : clearStatusTimer(t)
    \/ \E t \in timers, result \in {"ok", "lost"} : joinTimer(t, result)
    \/ \E r \in http : callTokenDone(r)
    \/ \E r \in http : tokenFailed(r)
    \/ \E p \in Personas : Connected(p)
    \/ \E p \in Personas : syncTimer(p)
    \/ Tick

SpecAnswer == InitRinging /\ [][NextAnswer]_vars

\* ------------------------------------------------- properties: transcripts
Entry(agent, text) == [agent |-> agent, text |-> text]
Has(seq, x) == \E i \in 1..Len(seq) : seq[i] = x

\* A key in the dedup set has its expiry callback pending, so it stays in the
\* set until DedupWindowMs have passed since it was recorded.
KeyHasTimer ==
    \A p \in Personas : \A h \in lastTranscriptHashes[p] :
        \E t \in hashTimers : t.who = p /\ t.hash = h

\* C11 (dedup idempotence): a final, non-blank utterance that arrives on either
\* channel while its key is in the dedup set, that is within 5 s of the arrival
\* that recorded it, adds nothing; one whose key is not in the set records the
\* key for 5 s and leaves the utterance in the transcript once more at most; a
\* caption of Halima or Alex, whose utterances come as SPEECH, adds nothing.
C11_Step ==
    /\ \A data \in SpeechPackets :
            (/\ data.final # "false" /\ trim(data.text) # <<>>
             /\ Delivers("Halima", data)) =>
                LET k == contentHash(speakerOf(data), data.text)
                    e == Entry(speakerOf(data), data.text)
                IN  IF k \in lastTranscriptHashes["Halima"]
                    THEN transcripts' = transcripts
                    ELSE /\ k \in lastTranscriptHashes'["Halima"]
                         /\ [who |-> "Halima", hash |-> k, left |-> DedupWindowMs]
                                \in hashTimers'
                         /\ Has(transcripts'["Halima"], e)
                         /\ Len(transcripts'["Halima"]) <= Len(transcripts["Halima"]) + 1
    /\ \A agentName \in {"Agent", "Halima"}, text \in Texts :
            (/\ trim(text) # <<>>
             /\ handleTranscription("Halima", agentName, <<Segment(text, TRUE)>>)) =>
                LET k == contentHash(agentName, text)
                IN  IF agentName = "Halima" \/ k \in lastTranscriptHashes["Halima"]
                    THEN transcripts' = transcripts
                    ELSE /\ k \in lastTranscriptHashes'["Halima"]
                         /\ [who |-> "Halima", hash |-> k, left |-> DedupWindowMs]
                                \in hashTimers'
                         /\ transcripts'["Halima"] =
                                Append(transcripts["Halima"], Entry(agentName, text))
    /\ \A t \in hashTimers : forgetHashTimer(t) => t.left = 0

C11_DedupIdempotence == []KeyHasTimer /\ [][C11_Step]_vars

\* Two utterances were delivered, the key of "Ok." by Agent is in its window and
\* the transcript holds that utterance once and nothing else.
C11_Witness ==
    /\ ops = 2
    /\ transcripts["Halima"] = <<Entry("Agent", Ok)>>
    /\ lastTranscriptHashes["Halima"] = {contentHash("Agent", Ok)}
    /\ \E t \in hashTimers : t.left = DedupWindowMs

\* C12 (dedup expiry), as the specification states it: a final, non-blank
\* utterance that arrives when its key is not in the dedup set (never seen, or
\* seen more than 5 s ago) is appended, also when an entry of the same role and
\* text is still in the buffer.
C12_DedupExpiry ==
    [][ /\ \A data \in SpeechPackets :
                (/\ data.final # "false" /\ trim(data.text) # <<>>
                 /\ contentHash(speakerOf(data), data.text)
                        \notin lastTranscriptHashes["Halima"]
                 /\ Delivers("Halima", data)) =>
                    transcripts'["Halima"] =
                        Append(transcripts["Halima"], Entry(speakerOf(data), data.text))
        /\ \A text \in Texts :
                (/\ trim(text) # <<>>
                 /\ contentHash("Agent", text) \notin lastTranscriptHashes["Halima"]
                 /\ handleTranscription("Halima", "Agent", <<Segment(text, TRUE)>>)) =>
                    transcripts'["Halima"] =
                        Append(transcripts["Halima"], Entry("Agent", text))
      ]_vars

\* C14 (input filter), as the specification states it: no transcript entry has
\* empty or whitespace-only text, and a non-final utterance adds no entry and
\* records no key.
NoBlankEntry ==
    \A p \in Personas : \A i \in 1..Len(transcripts[p]) :
        trim(transcripts[p][i].text) # <<>>

C14_NonFinal ==
    /\ \A data \in SpeechPackets :
            (data.final = "false" /\ Delivers("Halima", data)) =>
                UNCHANGED <<transcripts, lastTranscriptHashes, hashTimers>>
    /\ \A agentName \in {"Agent", "Halima"}, text \in Texts :
            handleTranscription("Halima", agentName, <<Segment(text, FALSE)>>) =>
                UNCHANGED <<transcripts, lastTranscriptHashes, hashTimers>>

C14_InputFilter == []NoBlankEntry /\ [][C14_NonFinal]_vars

\* The n most recent of the first k utterances, in arrival order.
Recent(k, n) ==
    LET first == IF k > n THEN k - n ELSE 0
    IN  [i \in 1..(k - first) |-> Entry("Agent", Utterance(first + i))]

\* C13 (bounded buffer): the transcript never holds more than 50 entries, and
\* after N distinct utterances have arrived it holds the last min(N, 50) of
\* them in the order of their arrival, so for N > 50 exactly the 50 most recent.
C13_BoundedBuffer ==
    /\ \A p \in Personas : Len(transcripts[p]) <= MaxTranscripts
    /\ roomState["Halima"].state = "connected" =>
            transcripts["Halima"] = Recent(ops, MaxTranscripts)

\* More than 50 utterances have arrived and the oldest two are gone.
C13_Witness ==
    /\ roomState["Halima"].state = "connected"
    /\ ops = MaxTranscripts + 2
    /\ Len(transcripts["Halima"]) = MaxTranscripts
    /\ transcripts["Halima"][1] = Entry("Agent", Utterance(3))
    /\ transcripts["Halima"][MaxTranscripts] = Entry("Agent", Utterance(MaxTranscripts + 2))

\* What the two clauses of the key mean for the names and texts of the model,
\* written down case by case: the role of a name whatever its letter case, and
\* the words of a text without their case, surrounding blanks and final marks.
RoleOf(speaker) ==
    CASE speaker \in {"Agent", "AGENT"} -> "agent"
      [] speaker = "Halima" -> "halima"

WordsOf(text) ==
    CASE text \in {Ok, OkSpaced} -> "ok"
      [] text = No -> "no"
      [] text = Blank -> ""

SameUtterance(s1, t1, s2, t2) == RoleOf(s1) = RoleOf(s2) /\ WordsOf(t1) = WordsOf(t2)

Speakers == {"Agent", "AGENT", "Halima"}

\* The key of an utterance like (speaker, text) is in the dedup set of p.
KeyRecorded(p, speaker, text) ==
    \E s \in Speakers, t \in Texts :
        SameUtterance(speaker, text, s, t) /\ contentHash(s, t) \in lastTranscriptHashes[p]

\* An entry like (speaker, text) is in the transcript of p.
EntryLike(p, speaker, text) ==
    \E i \in 1..Len(transcripts[p]) :
        /\ transcripts[p][i].agent \in Speakers /\ transcripts[p][i].text \in Texts
        /\ SameUtterance(speaker, text, transcripts[p][i].agent, transcripts[p][i].text)

\* The spellings of one word: blanks, the word in any letter case, final marks
\* and blanks again, all normalized to the same text.
Spellings ==
    { pre \o word \o marks \o post :
        pre \in {<<>>, <<" ">>, <<" ", " ">>},
        word \in {<<"o", "k">>, <<"O", "k">>, <<"o", "K">>, <<"O", "K">>},
        marks \in {<<>>, <<".">>, <<"!">>, <<"?">>, <<"!", "?">>, <<".", ".", ".">>},
        post \in {<<>>, <<" ">>} }

KeyNormalForm ==
    /\ \A t \in Spellings : normalizedText(t) = <<"o", "k">>
    /\ \A s1 \in Speakers, s2 \in Speakers, t1 \in Texts, t2 \in Texts :
            SameUtterance(s1, t1, s2, t2) <=> contentHash(s1, t1) = contentHash(s2, t2)

C15_Step ==
    /\ \A data \in SpeechPackets :
            (/\ data.final # "false" /\ trim(data.text) # <<>>
             /\ Delivers("Halima", data)) =>
                /\ KeyRecorded("Halima", data.who, data.text) =>
                        UNCHANGED <<transcripts, lastTranscriptHashes>>
                /\ UNCHANGED transcripts =>
                        \/ KeyRecorded("Halima", data.who, data.text)
                        \/ EntryLike("Halima", data.who, data.text)
    /\ \A text \in Texts :
            (/\ trim(text) # <<>>
             /\ handleTranscription("Halima", "Agent", <<Segment(text, TRUE)>>)) =>
                /\ KeyRecorded("Halima", "Agent", text) =>
                        UNCHANGED <<transcripts, lastTranscriptHashes>>
                /\ UNCHANGED transcripts => KeyRecorded("Halima", "Agent", text)

TailExtension(old, new, k) ==
    /\ Len(new) > Len(old) - k
    /\ SubSeq(new, 1, Len(old) - k) = SubSeq(old, k + 1, Len(old))

\* C16 (append-only ordering): a step leaves the transcript as it is, or adds
\* entries after the ones it holds, which keep their order, and takes entries away
\* from the head only, and only to bring the length back to 50, or empties it
\* altogether, which is the session reset of a CALL_ACCEPTED packet.
C16_AppendOnly ==
    [][\A p \in Personas :
        LET old == transcripts[p]
            new == transcripts'[p]
        IN  \/ new = old
            \/ \E k \in 0..Len(old) :
                    /\ TailExtension(old, new, k)
                    /\ k > 0 => Len(new) = MaxTranscripts
            \/ /\ new = <<>>
               /\ \E data \in CallPacketsAccepted : Delivers(p, data)]_vars

\* 51 utterances have arrived, the first of them was evicted by the last, and
\* the session was then reset.
C16_Witness ==
    /\ ops = MaxTranscripts + 2
    /\ Cardinality(lastTranscriptHashes["Halima"]) = MaxTranscripts + 1
    /\ transcripts["Halima"] = <<>>
    /\ roomState["Halima"] = Disconnected

\* ---------------------------------------------------- properties: resolver
\* C17 (identity stability): when the identity map is computed again because a
\* peer joined or left, every identity that was mapped and is still present
\* keeps its role, whatever its metadata declare by then.
C17_IdentityStability ==
    [][Len(tracks') # Len(tracks) =>
        \A id \in DOMAIN participantToAgent :
            Present(tracks', id) =>
                /\ id \in DOMAIN participantToAgent'
                /\ participantToAgent'[id] = participantToAgent[id]]_vars

\* C18 (role conflict): in every computed identity map at most one identity
\* maps to a role, the earlier one of two peers that resolve to the same role.
C18_RoleConflict ==
    \A a \in DOMAIN participantToAgent, b \in DOMAIN participantToAgent :
        participantToAgent[a] = participantToAgent[b] => a = b

\* A qualifying peer that declares no role and has no keyword of a role in its
\* identity or display name.
Unresolved(P) ==
    /\ isAgentTrack(P)
    /\ P.metadata = Null
    /\ getAgentFromIdentity(P.identity, P.name) = "Agent"

\* The roles no qualifying peer other than tracks[i] resolves to.
RemainingRoles(i) ==
    Personas \ { agentNameOf(tracks[j]) :
                    j \in {k \in 1..Len(tracks) : k # i /\ isAgentTrack(tracks[k])} }

\* C19 (resolution fallback chain): in a computed identity map a qualifying peer
\* has the role its metadata declare, else the role whose keyword its identity
\* or display name contains, else, when it is the only peer left without a role
\* and one role is left without a peer, that role.
C19_FallbackChain ==
    participantToAgent = mapping(agentTracks(tracks)) =>
        \A i \in 1..Len(tracks) :
            LET P == tracks[i]
            IN  isAgentTrack(P) =>
                    IF P.metadata # Null THEN agentNameOf(P) = P.metadata
                    ELSE IF ~Unresolved(P)
                    THEN agentNameOf(P) = getAgentFromIdentity(P.identity, P.name)
                    ELSE (/\ \A j \in 1..Len(tracks) : j # i => ~Unresolved(tracks[j])
                          /\ Cardinality(RemainingRoles(i)) = 1)
                            => agentNameOf(P) \in RemainingRoles(i)

\* ---------------------------------------------------- properties: contract
\* C20 (contract flow): from status none, CONTRACT_INTENT of agent Halima sets
\* the status to drafting; a CONTRACT_PREVIEW with contract_id c that follows
\* sets it to pending_approval and makes pendingContract the preview, id c and
\* its terms; the local approve that follows publishes CONTRACT_APPROVED with
\* contract_id c when the transport takes the packet, sets the status to sent
\* and pendingContract to null.
C20_ContractFlow ==
    [][/\ \A data \in ContractPackets :
            (/\ data.type = "CONTRACT_INTENT" /\ data.who = "Halima"
             /\ contractStatus["Halima"] = "none"
             /\ Delivers("Halima", data)) =>
                /\ contractStatus'["Halima"] = "drafting"
                /\ UNCHANGED <<pendingContract, published>>
       /\ \A data \in ContractPackets :
            (/\ data.type = "CONTRACT_PREVIEW"
             /\ contractStatus["Halima"] = "drafting"
             /\ Delivers("Halima", data)) =>
                /\ contractStatus'["Halima"] = "pending_approval"
                /\ pendingContract'["Halima"].id = data.id
                /\ pendingContract'["Halima"].contract_data = data.contract_data
                /\ pendingContract'["Halima"].title = data.text
                /\ UNCHANGED published
       /\ \A delivered \in BOOLEAN :
            (/\ contractStatus["Halima"] = "pending_approval"
             /\ pendingContract["Halima"] # NoContract
             /\ approveContract("Halima", delivered)) =>
                /\ contractStatus'["Halima"] = "sent"
                /\ pendingContract'["Halima"] = NoContract
                /\ published'["Halima"] =
                        IF delivered
                        THEN Append(published["Halima"],
                                [type |-> "CONTRACT_APPROVED",
                                 id |-> pendingContract["Halima"].id, reason |-> Null])
                        ELSE published["Halima"]]_vars

\* The intent and the preview of contract c2 have arrived and the user has
\* approved: CONTRACT_APPROVED of c2 is out, the status is sent, nothing pends.
C20_Witness ==
    /\ ops = 2
    /\ contractStatus["Halima"] = "sent"
    /\ pendingContract["Halima"] = NoContract
    /\ published["Halima"] = <<[type |-> "CONTRACT_APPROVED", id |-> "c2", reason |-> Null]>>

\* C21 (draft intent is role-independent): a CONTRACT_INTENT packet that
\* arrives while the contract status is none sets the status to drafting,
\* whichever agent it names.
C21_IntentAnyRole ==
    [][\A data \in ContractPackets :
        (/\ data.type = "CONTRACT_INTENT"
         /\ contractStatus["Halima"] = "none"
         /\ Delivers("Halima", data)) =>
            contractStatus'["Halima"] = "drafting"]_vars

\* C22 (contract reject): a local reject with reason r while contract c pends
\* publishes CONTRACT_REJECTED with contract_id c and reason r as given when
\* the transport takes the packet, sets the status to none and pendingContract
\* to null; a CONTRACT_REJECTED packet that arrives sets the status to none
\* and pendingContract to null as well, and publishes nothing.
C22_ContractReject ==
    [][/\ \A reason \in Reasons, delivered \in BOOLEAN :
            (/\ pendingContract["Halima"] # NoContract
             /\ rejectContract("Halima", reason, delivered)) =>
                /\ contractStatus'["Halima"] = "none"
                /\ pendingContract'["Halima"] = NoContract
                /\ published'["Halima"] =
                        IF delivered
                        THEN Append(published["Halima"],
                                [type |-> "CONTRACT_REJECTED",
                                 id |-> pendingContract["Halima"].id, reason |-> reason])
                        ELSE published["Halima"]
       /\ \A data \in ContractPackets :
            (data.type = "CONTRACT_REJECTED" /\ Delivers("Halima", data)) =>
                /\ contractStatus'["Halima"] = "none"
                /\ pendingContract'["Halima"] = NoContract
                /\ UNCHANGED published]_vars

\* The preview of contract c2 has arrived and the user has rejected it with a
\* reason of their own: the packet is out with that reason, nothing pends.
C22_Witness ==
    /\ ops = 1
    /\ contractStatus["Halima"] = "none"
    /\ pendingContract["Halima"] = NoContract
    /\ published["Halima"] =
            <<[type |-> "CONTRACT_REJECTED", id |-> "c2", reason |-> "Price too low."]>>

InRange(v) == LessEq(Number(0), v) /\ LessEq(v, Number(100))

\* r / m * 100 clamped to 0..100
Clamped(v) ==
    IF LessEq(v, Number(0)) THEN Number(0)
    ELSE IF LessEq(Number(100), v) THEN Number(100)
    ELSE v

ProgressInRange == \A p \in Personas : InRange(negotiationProgress[p])

C24_Step ==
    \A data \in TimelinePackets :
        (data.max_rounds # 0 /\ onDataReceivedBidding("Halima", data)) =>
            negotiationProgress'["Halima"] =
                Clamped(Quotient(data.round * 100, data.max_rounds))

\* C24 (progress value): the progress is between 0 and 100 in every reachable
\* state, also after a timeline event with round above max_rounds or with
\* max_rounds 0, and after an event with round r and max_rounds m > 0 it is
\* r / m * 100 clamped to that range (50 for 4 of 8, 100 for 8 of 8).
C24_ProgressValue == []ProgressInRange /\ [][C24_Step]_vars

\* a < b, false when either is NaN
Less(a, b) == LessEq(a, b) /\ a # b

\* C25 (progress monotonicity): in a step that is no session boundary, which in
\* this dashboard is the arrival of CALL_ACCEPTED, the current round, the turn
\* count and the progress do not decrease.
C25_ProgressMonotone ==
    [][(~ \E data \in AcceptedPackets : onDataReceivedBidding("Halima", data)) =>
        /\ timeline'["Halima"].round >= timeline["Halima"].round
        /\ timeline'["Halima"].turn >= timeline["Halima"].turn
        /\ ~Less(negotiationProgress'["Halima"], negotiationProgress["Halima"])]_vars

\* C26 (deal finalization): a DEAL_FINALIZED event sets the flag, the flag
\* stays set, and while it is set no step changes the offer of either role.
C26_DealFinalization ==
    [][/\ \A data \in DealPackets :
            onDataReceivedBidding("Halima", data) => dealFinalized'["Halima"]
       /\ dealFinalized["Halima"] =>
            /\ dealFinalized'["Halima"]
            /\ halimaOffer'["Halima"] = halimaOffer["Halima"]
            /\ alexOffer'["Halima"] = alexOffer["Halima"]]_vars

\* ------------------------------------------------------- properties: resync
\* The SYNC_REQUEST packets p published into the room it is connected to
SyncRequests(p) ==
    { i \in 1..Len(published[p]) : published[p][i] = SyncRequest(roomState[p].name) }

\* C27: a client that connects to a room has an empty transcript buffer at
\* that moment and publishes exactly one SYNC_REQUEST into the room after the
\* debounce delay: never two, and one once no debounce timer is pending,
\* also when the effect ran again (the handlers were registered again) or
\* sendSyncRequest was called twice in between.
C27_Count ==
    \A p \in Personas :
        /\ Cardinality(SyncRequests(p)) <= 1
        /\ roomState[p].state = "connected" /\ syncTimeout[p] = {}
                => Cardinality(SyncRequests(p)) = 1

C27_Resync ==
    /\ []C27_Count
    /\ [][\A p \in Personas : Connected(p) => transcripts'[p] = <<>>]_vars

\* -------------------------------------------------------- properties: reset
\* C28: when a client has connected to a room (the session reset is complete:
\* the reset of call accept, the rejoin and the connect), its transcript buffer
\* and its dedup keys are empty and its thoughts, contract status, pending
\* contract and shared files have their initial values.
C28_ResetScope ==
    [][\A p \in Personas : Connected(p) =>
            /\ transcripts'[p] = <<>>
            /\ lastTranscriptHashes'[p] = {}
            /\ thoughts'[p] = <<>>
            /\ contractStatus'[p] = "none"
            /\ pendingContract'[p] = NoContract
            /\ sharedFiles'[p] = <<>>]_vars

\* The session reset of call accept reaches p: the CALL_ACCEPTED packet
\* arrives at the caller, or the acceptCall of the callee continues after its
\* await.
ResetBy(p) ==
    \/ \E data \in PeerPackets(p) : data.type = "CALL_ACCEPTED" /\ Delivers(p, data)
    \/ \E r \in http : r.who = p /\ acceptCallDone(r)

\* C29: a session reset cancels every timer the client armed before it, so
\* that none acts on the newer session: after the reset of call accept none of
\* the client's earlier status-clear and rejoin timers is pending, and when the
\* room of the newer session connects no dedup-key expiry and no resync
\* debounce armed before is pending on the mounted component.
C29_TimerCancellation ==
    [][\A p \in Personas :
            /\ ResetBy(p) => \A t \in timers : t.who = p => t \notin timers'
            /\ Connected(p) => /\ \A t \in hashTimers : t.who # p
                               /\ syncTimeout[p] = {}]_vars

\* -------------------------------------------------- properties: malformed
\* C30: a payload that is no JSON, or that decodes to a value without a known
\* event type, changes nothing of the session (the handler catches what the
\* decoding throws), and a well-formed SPEECH packet is processed as before
\* whatever was delivered earlier: an utterance that is neither in the dedup
\* set nor in the buffer is appended.
C30_Step ==
    /\ \A payload \in MalformedPayloads : DeliversPayload("Halima", payload) =>
            UNCHANGED <<homeVars, trackVars, trackerVars, syncVars, roomState, http,
                        inbox, timers, hashTimers, published, minted,
                        lastTranscriptHashes, tokenAsked>>
    /\ \A payload \in WellFormedPayloads :
            /\ DeliversPayload("Halima", payload)
            /\ payload.data.type = "SPEECH"
            /\ contentHash("Halima", payload.data.text) \notin lastTranscriptHashes["Halima"]
            /\ ~Has(transcripts["Halima"], Entry("Halima", payload.data.text))
            => transcripts'["Halima"] =
                    Append(transcripts["Halima"], Entry("Halima", payload.data.text))

C30_MalformedDropped == [][C30_Step]_vars

\* An undecodable payload was caught and an utterance is in the buffer
C30_Witness ==
    /\ dataErrors["Halima"] >= 1
    /\ Has(transcripts["Halima"], Entry("Halima", Ok))
    /\ ops = 2

\* ----------------------------------------------- properties: call states
\* C31: once the call state of a client is connected it stays connected: no
\* CALL_OFFER, CALL_DECLINED or CALL_ACCEPTED packet and no late answer to an
\* earlier request moves it to idle, calling or ringing.
C31_ConnectedStable ==
    [][\A p \in Personas : callState[p] = "connected" => callState'[p] = "connected"]_vars

\* C32: the call packets act from their source state only: CALL_ACCEPTED makes
\* a client connected when it is calling and changes no call state otherwise,
\* CALL_OFFER makes it ringing when it is idle and changes no call state
\* otherwise, and CALL_DECLINED changes the call state, the peer record and the
\* status message only when the client is calling.
C32_Step ==
    \A p \in Personas :
        /\ \A data \in CallPackets(p, "CALL_ACCEPTED") :
                (callState[p] # "calling" /\ Arrives(p, data)) =>
                    UNCHANGED <<callState, lkToken, roomState, timers>>
        /\ \A data \in CallPackets(p, "CALL_OFFER") :
                (callState[p] # "idle" /\ Arrives(p, data)) =>
                    UNCHANGED <<callState, incomingCallFrom>>
        /\ \A data \in CallPackets(p, "CALL_DECLINED") :
                (callState[p] # "calling" /\ Arrives(p, data)) =>
                    UNCHANGED <<callState, outgoingCallTo, callStatus, timers>>

C32_SourceStateGuards == [][C32_Step]_vars

\* C33: the peer records match the call state in every reachable state: a
\* calling client has outgoingCallTo set, a ringing client has incomingCallFrom
\* set, and an idle client has neither.
C33_PeerRecords ==
    \A p \in Personas :
        /\ callState[p] = "calling" => outgoingCallTo[p] # Null
        /\ callState[p] = "ringing" => incomingCallFrom[p] # Null
        /\ callState[p] = "idle" => outgoingCallTo[p] = Null /\ incomingCallFrom[p] = Null

\* C34: the answer or the failure of a /call/offer request that arrives when
\* its client is no longer calling changes neither the call state nor the peer
\* records.
C34_StaleOfferResponse ==
    [][\A r \in http :
            /\ r.kind = "offer" /\ callState[r.who] # "calling"
            /\ initiateCallSent(r) \/ initiateCallOffline(r) \/ initiateCallFailed(r)
            => UNCHANGED <<callState, incomingCallFrom, outgoingCallTo>>]_vars

\* C35: for the one offer Halima received she mints at most one meeting id and
\* has at most one /call/accept request, and once a decline has left her idle
\* with no offer on record she does not become connected.
C35_OneMint ==
    /\ Cardinality(minted["Halima"]) <= 1
    /\ Cardinality({r \in http : r.kind = "accept" /\ r.who = "Halima"}) <= 1

C35_OneAcceptPerOffer ==
    /\ []C35_OneMint
    /\ [][(callState["Halima"] = "idle" /\ incomingCallFrom["Halima"] = Null)
            => callState'["Halima"] # "connected"]_vars

\* C36: a status message stays for its whole auto-clear interval unless it is
\* replaced: when a clear callback runs, no clear callback of the same client
\* armed after it, for a message set later, is still pending.
C36_StatusLifetime ==
    [][\A t \in timers : clearStatusTimer(t) =>
            ~ \E u \in timers : u # t /\ u.who = t.who /\ u.kind = "clearStatus"]_vars

\* ------------------------------------------- properties: pending contract
\* C37: in every reachable state a client has a pending contract exactly when
\* its contract status is pending_approval.
C37_PendingMatchesStatus ==
    \A p \in Personas :
        pendingContract[p] # NoContract <=> contractStatus[p] = "pending_approval"

\* ------------------------------------------------ properties: captions
\* No entry of the buffer and no dedup key is attributed to Halima or Alex
NoKnownRoleCaption ==
    /\ \A i \in 1..Len(transcripts["Halima"]) :
            transcripts["Halima"][i].agent \notin {"Halima", "Alex"}
    /\ \A text \in {Ok} :
            /\ contentHash("Halima", text) \notin lastTranscriptHashes["Halima"]
            /\ contentHash("Alex", text) \notin lastTranscriptHashes["Halima"]

\* C38: a caption of a participant that resolves to Halima or Alex adds no
\* transcript entry, records no dedup key and arms no expiry; with captions as
\* the only channel the buffer holds no entry and no key of these two roles.
C38_CaptionIgnored ==
    /\ []NoKnownRoleCaption
    /\ [][\A i \in 1..Len(tracks) :
            /\ agentNameOf(tracks[i]) \in {"Halima", "Alex"}
            /\ handleTranscription("Halima", agentNameOf(tracks[i]), <<Segment(Ok, TRUE)>>)
            => UNCHANGED <<transcripts, lastTranscriptHashes, hashTimers>>]_vars

\* A caption was delivered, every participant with a track resolves to Halima
\* or Alex, and the buffer is empty
C38_Witness ==
    /\ ops = 1
    /\ tracks # <<>>
    /\ \A i \in 1..Len(tracks) : agentNameOf(tracks[i]) \in {"Halima", "Alex"}
    /\ transcripts["Halima"] = <<>>
    /\ lastTranscriptHashes["Halima"] = {}

\* C39: approveContract and rejectContract invoked without a pending contract
\* publish nothing and leave the contract status, the pending contract and the
\* shared files as they are.
C39_NeedsPendingContract ==
    [][\A p \in Personas : \A delivered \in BOOLEAN : \A reason \in Reasons :
            /\ pendingContract[p] = NoContract
            /\ approveContract(p, delivered) \/ rejectContract(p, reason, delivered)
            => UNCHANGED <<published, contractStatus, pendingContract, sharedFiles>>]_vars

\* Halima approved a contract: the status is sent, nothing is pending, and the
\* two functions, invoked now, find no pending contract
C39_Witness ==
    /\ contractStatus["Halima"] = "sent"
    /\ pendingContract["Halima"] = NoContract
    /\ Len(published["Halima"]) = 1
    /\ published["Halima"][1].type = "CONTRACT_APPROVED"
    /\ inRoom["Halima"]

====
